---- MODULE Spec2Model ----
(***************************************************************************)
(* Feature-flag service: the evaluation engine with its cache-aside Redis  *)
(* cache (app/services/evaluation.py, app/cache.py) and the administrative *)
(* write paths that commit to the relational store and then invalidate the *)
(* cache (app/routers/flags.py, app/routers/environments.py).              *)
(*                                                                         *)
(* Every request handler is a process slot that walks through the          *)
(* handler's database and cache calls one call at a time, so that requests *)
(* interleave at exactly the points where the code talks to PostgreSQL or  *)
(* Redis.  Variables whose name starts with h are history variables: they  *)
(* record what happened and are never read by an action's guard or by the  *)
(* program state it computes.                                              *)
(***************************************************************************)
EXTENDS Integers, Sequences, FiniteSets, Bags, TLC

\* ------------------------------------------------------------------ bounds
\* cache_ttl_seconds (config.py) counted in clock ticks of the model.
TtlTicks == 2

\* ------------------------------------------------------------ input domains
EnvKeys == {"production"}
FlagKeys == {"new-checkout"}
\* Python None for the optional user_id query parameter.
None == "<None>"
UserIds == {"alice"}
FlagTypes == {"boolean", "percentage"}
Percentages == {0, 60}
Readers == 1..2
\* One slot per concurrent request: two evaluate calls, one update_flag call
\* and one delete_flag call may be in flight together.
Updaters == {"u1"}
Deleters == {"d1"}
Writers == Updaters \cup Deleters
Pairs == EnvKeys \X FlagKeys

\* FlagCreate: the evaluation-relevant fields of the request body; the first
\* is the schema's defaults.
CreateBodies ==
  {[flag_type |-> "boolean", is_enabled |-> FALSE, rollout_percentage |-> 0],
   [flag_type |-> "percentage", is_enabled |-> TRUE, rollout_percentage |-> 60]}

\* FlagUpdate after model_dump(exclude_unset=True): sent holds the names of
\* the fields the request carried, nulls those among them that it carried as
\* an explicit null, the other fields hold the values.
UpdateBody(sent, b, t, r) ==
  [sent |-> sent, nulls |-> {},
   is_enabled |-> b, flag_type |-> t, rollout_percentage |-> r]

UpdateBodies ==
  {UpdateBody({}, FALSE, "boolean", 0)}
    \cup {UpdateBody({"is_enabled"}, b, "boolean", 0) : b \in BOOLEAN}
    \cup {UpdateBody({"rollout_percentage"}, FALSE, "boolean", r) : r \in Percentages}

VARIABLES
  envs,       \* table environments: set of rows [id, key]
  flags,      \* table flags: set of rows
  cache,      \* Redis: per key <<>> (absent) or <<[data, ttl]>>
  rd,         \* evaluate requests, one per reader slot
  wr,         \* update_flag / delete_flag requests, one per writer slot
  hStoreVer,  \* per (environment_key, flag_key): committed writes so far
  hUpdVer,    \* per pair: hStoreVer right after the last committed update
  hAge,       \* per pair: ticks since the last committed update (capped)
  hCache,     \* per cache key: <<>> or what the store was when the entry was set
  hInval,     \* per pair: version whose invalidation ran, no evaluate since
  hLastPop,   \* per pair: the evaluate that last populated the cache entry
  users,      \* table users: set of rows [id, role]
  audit       \* table audit_logs: bag of rows (the row ids set aside)

vars ==
  <<envs, flags, cache, rd, wr,
    hStoreVer, hUpdVer, hAge, hCache, hInval, hLastPop, users, audit>>

\* ------------------------------------------------------------- cache layer
\* A key format that separates its parts with the hyphen the keys may contain.
MakeKeyHyphen(flag_key, environment_key) ==
  "flag-" \o environment_key \o "-" \o flag_key

\* CacheService._make_key
MakeKey(flag_key, environment_key) ==
  "flag:" \o environment_key \o ":" \o flag_key

\* A serialisation that loses the rollout percentage.
JsonDumpsNoRollout(flag_data) ==
  <<"is_enabled", IF flag_data.is_enabled THEN "true" ELSE "false",
    "flag_type", flag_data.flag_type,
    "rollout_percentage", 0>>

\* json.dumps of the flag_data dict: the text Redis stores, token by token.
JsonDumps(flag_data) ==
  <<"is_enabled", IF flag_data.is_enabled THEN "true" ELSE "false",
    "flag_type", flag_data.flag_type,
    "rollout_percentage", flag_data.rollout_percentage>>

\* A decoder that expects Python's spelling of the booleans.
JsonLoadsPythonBool(data) ==
  [is_enabled |-> data[2] = "True",
   flag_type |-> data[4],
   rollout_percentage |-> data[6]]

\* json.loads of that text.
JsonLoads(data) ==
  [is_enabled |-> data[2] = "true",
   flag_type |-> data[4],
   rollout_percentage |-> data[6]]

\* The keys Redis can hold in this model.
CacheKeys == {MakeKey(pr[2], pr[1]) : pr \in Pairs}

PairKey(pair) == MakeKey(pair[2], pair[1])

\* A set_flag whose SETEX never reaches the key that get_flag reads.
CacheSetLost(c, key, flag_data) == c

\* Redis SETEX key ttl value: unconditional overwrite, fresh time to live.
CacheSet(c, key, flag_data) ==
  [c EXCEPT ![key] = <<[data |-> JsonDumps(flag_data), ttl |-> TtlTicks]>>]

\* An invalidation that overwrites the entry with a switched-off placeholder
\* where it should remove it.
CacheDeletePlaceholder(c, key) ==
  [c EXCEPT ![key] =
     <<[data |-> <<"is_enabled", "false", "flag_type", "boolean",
                   "rollout_percentage", 0>>,
        ttl |-> TtlTicks]>>]

\* Redis DEL key: removing an absent key is not an error.
CacheDelete(c, key) ==
  [c EXCEPT ![key] = <<>>]

\* CacheService.get_flag: the decoded entry, <<>> for None.
GetFlag(c, flag_key, environment_key) ==
  LET key == MakeKey(flag_key, environment_key) IN
  IF c[key] # <<>> THEN <<JsonLoads(c[key][1].data)>> ELSE <<>>

\* ------------------------------------------------------- evaluation engine
\* hashlib.md5(combined.encode()).hexdigest()[:8]: the first eight hex digits
\* of the digest, most significant first, tabulated for the strings the model
\* evaluates (new-checkout: alice 92ab01cd, bob 01cb70ae, "" c5c20767,
\* user-81 58a842f8, user-3 69be58fb; dark-mode: alice 7ffdfc24, bob 172c0c55,
\* "" ed2f329a, user-81 0421e4d4, user-3 672d0bb9).
Md5Prefix(combined) ==
  CASE combined = "new-checkout:alice" -> <<9, 2, 10, 11, 0, 1, 12, 13>>
    [] combined = "new-checkout:bob" -> <<0, 1, 12, 11, 7, 0, 10, 14>>
    [] combined = "new-checkout:" -> <<12, 5, 12, 2, 0, 7, 6, 7>>
    [] combined = "new-checkout:user-81" -> <<5, 8, 10, 8, 4, 2, 15, 8>>
    [] combined = "new-checkout:user-3" -> <<6, 9, 11, 14, 5, 8, 15, 11>>
    [] combined = "dark-mode:alice" -> <<7, 15, 15, 13, 15, 12, 2, 4>>
    [] combined = "dark-mode:bob" -> <<1, 7, 2, 12, 0, 12, 5, 5>>
    [] combined = "dark-mode:" -> <<14, 13, 2, 15, 3, 2, 9, 10>>
    [] combined = "dark-mode:user-81" -> <<0, 4, 2, 1, 14, 4, 13, 4>>
    [] combined = "dark-mode:user-3" -> <<6, 7, 2, 13, 0, 11, 11, 9>>
    [] OTHER -> <<0, 0, 0, 0, 0, 0, 0, 0>>

\* int(digits, 16) % 100.  The value itself needs 32 unsigned bits, so the
\* remainder is carried through the positional sum digit by digit.
RECURSIVE HexMod100(_, _)
HexMod100(digits, acc) ==
  IF digits = <<>> THEN acc
  ELSE HexMod100(Tail(digits), (acc * 16 + Head(digits)) % 100)

\* A bucket taken from the first two hex digits with no reduction modulo 100.
GetBucketNoModulo(flag_key, user_id) ==
  LET digits == Md5Prefix(flag_key \o ":" \o user_id)
  IN digits[1] * 16 + digits[2]

\* A bucket numbered from 1 to 100.
GetBucketOneBased(flag_key, user_id) ==
  HexMod100(Md5Prefix(flag_key \o ":" \o user_id), 0) + 1

\* A bucket from the eight hex digits read as a signed 32-bit integer
\* (2^32 is 96 modulo 100).
GetBucketSigned(flag_key, user_id) ==
  LET digits == Md5Prefix(flag_key \o ":" \o user_id)
  IN IF digits[1] >= 8
     THEN (HexMod100(digits, 0) - 96) % 100
     ELSE HexMod100(digits, 0)

\* EvaluationService._get_bucket
GetBucket(flag_key, user_id) ==
  HexMod100(Md5Prefix(flag_key \o ":" \o user_id), 0)

\* An evaluation that never asks whether a user_id was given.
FalsyNever(user_id) == FALSE

\* A test for the absent user_id only (user_id is None).
FalsyOnlyNone(user_id) == user_id = None

\* Python truthiness of user_id: None and "" are falsy.
Falsy(user_id) == user_id = None \/ user_id = ""

\* A kill switch that only works for boolean flags.
DisabledOnlyBoolean(flag_data) ==
  ~flag_data.is_enabled /\ flag_data.flag_type = "boolean"

\* if not flag_data["is_enabled"]
Disabled(flag_data) == ~flag_data.is_enabled

\* The enum member's name where its value is meant.
FlagTypeBooleanName == "BOOLEAN"

\* FlagType.BOOLEAN.value and FlagType.PERCENTAGE.value
FlagTypeBoolean == "boolean"

FlagTypePercentage == "percentage"

\* A comparison that lets the bucket equal to the percentage in.
WithinRolloutInclusive(bucket, rollout) == bucket <= rollout

\* A comparison with its operands swapped.
WithinRolloutReversed(bucket, rollout) == rollout < bucket

\* if bucket < rollout
WithinRollout(bucket, rollout) == bucket < rollout

\* EvaluationService._evaluate_flag_data
EvaluateFlagData(flag_data, flag_key, user_id, cached) ==
  IF Disabled(flag_data)
  THEN [enabled |-> FALSE, flag_key |-> flag_key,
        reason |-> "Flag is disabled", cached |-> cached]
  ELSE IF flag_data.flag_type = FlagTypeBoolean
  THEN [enabled |-> TRUE, flag_key |-> flag_key,
        reason |-> "Boolean flag is enabled", cached |-> cached]
  ELSE IF flag_data.flag_type = FlagTypePercentage
  THEN IF Falsy(user_id)
       THEN [enabled |-> FALSE, flag_key |-> flag_key,
             reason |-> "Percentage flag requires user_id", cached |-> cached]
       ELSE LET bucket == GetBucket(flag_key, user_id)
                rollout == flag_data.rollout_percentage
            IN IF WithinRollout(bucket, rollout)
               THEN [enabled |-> TRUE, flag_key |-> flag_key,
                     reason |-> "User bucket " \o ToString(bucket)
                                \o " is within " \o ToString(rollout)
                                \o "% rollout",
                     cached |-> cached]
               ELSE [enabled |-> FALSE, flag_key |-> flag_key,
                     reason |-> "User bucket " \o ToString(bucket)
                                \o " is outside " \o ToString(rollout)
                                \o "% rollout",
                     cached |-> cached]
  ELSE [enabled |-> FALSE, flag_key |-> flag_key,
        reason |-> "Unknown flag type: " \o flag_data.flag_type,
        cached |-> cached]

\* The dict evaluate builds from a flags row before caching it.
Projection(flag) ==
  [is_enabled |-> flag.is_enabled,
   flag_type |-> flag.flag_type,
   rollout_percentage |-> flag.rollout_percentage]

\* ------------------------------------------------------ authoritative store
\* db.query(Environment).filter(Environment.key == key): the matching rows.
EnvByKey(key) == {e \in envs : e.key = key}

\* db.query(Flag).filter(Flag.key == key, Flag.environment_id == env_id)
FlagByKey(key, env_id) ==
  {f \in flags : f.key = key /\ f.environment_id = env_id}

\* The flags row the pair (environment_key, flag_key) names, as a set.
FlagOfPair(pair) ==
  {f \in flags : f.key = pair[2]
                 /\ \E e \in envs : e.key = pair[1] /\ e.id = f.environment_id}

\* The user whose token a request carries (current_user): every request
\* slot belongs to one user, and create_flag running in one piece to another.
CurrentUser(w) == "user-" \o w

\* The users table as the requests find it: an admin, who may delete, and
\* developers.
SeedUsers ==
  {[id |-> CurrentUser("d1"), role |-> "admin"]}
    \cup {[id |-> CurrentUser(w), role |-> "developer"] :
            w \in {"u1", "u2", "c1", "c2", "create"}}

\* ---------------------------------------------------------------- audit log
\* AuditService._create_log: one more row in audit_logs, committed.
CreateLog(log, entity_id, entity_key, action, user_id, changes, environment_key) ==
  log (+) SetToBag({[entity_type |-> "flag", entity_id |-> entity_id,
                     entity_key |-> entity_key, action |-> action,
                     user_id |-> user_id, changes |-> changes,
                     environment_key |-> environment_key]})

\* json.dumps of one value of old_values / new_values: true / false, the
\* quoted name of the flag type, the digits of the percentage.
JsonValue(field, value) ==
  IF field = "is_enabled" THEN (IF value THEN "true" ELSE "false")
  ELSE IF field = "flag_type" THEN "\"" \o value \o "\""
  ELSE ToString(value)

\* A change list that names every field, changed or not.
LogChangesEveryField(old_values, new_values) ==
  <<[field \in DOMAIN new_values |->
       [old |-> JsonValue(field, old_values[field]),
        new |-> JsonValue(field, new_values[field])]]>>

\* AuditService.log_update: the fields of new_values whose old value differs,
\* as JSON, or None (<<>>) when there is none.
LogChanges(old_values, new_values) ==
  LET changed == {field \in DOMAIN new_values :
                    old_values[field] # new_values[field]}
  IN IF changed = {} THEN <<>>
     ELSE <<[field \in changed |->
               [old |-> JsonValue(field, old_values[field]),
                new |-> JsonValue(field, new_values[field])]]>>

IdleReader ==
  [pc |-> "idle", flag_key |-> "", environment_key |-> "", user_id |-> None,
   env_id |-> 0, flag_data |-> <<>>, result |-> <<>>,
   hDataVer |-> 0, hLateVer |-> 0, hNextOf |-> 0]

IdleWriter ==
  [pc |-> "idle", op |-> "", flag_key |-> "", environment_key |-> "",
   body |-> UpdateBody({}, FALSE, "boolean", 0), flag |-> <<>>,
   old_values |-> <<>>,
   hCommitted |-> FALSE, hInvalidateCalled |-> FALSE, hWrote |-> {}, hVer |-> 0]

Init ==
  /\ envs = {[id |-> 1, key |-> "production"]}
  /\ flags = {}
  /\ cache = [k \in CacheKeys |-> <<>>]
  /\ rd = [p \in Readers |-> IdleReader]
  /\ wr = [w \in Writers |-> IdleWriter]
  /\ hStoreVer = [pr \in Pairs |-> 0]
  /\ hUpdVer = [pr \in Pairs |-> 0]
  /\ hAge = [pr \in Pairs |-> 0]
  /\ hCache = [k \in CacheKeys |-> <<>>]
  /\ hInval = [pr \in Pairs |-> 0]
  /\ hLastPop = [pr \in Pairs |-> <<>>]
  /\ users = SeedUsers
  /\ audit = EmptyBag


\* ------------------------------------------------------------------ evaluate
\* Every slot serves one request, and a new request takes the first free slot
\* (the slots are interchangeable).
ReaderFree(p) == rd[p].pc = "idle" /\ \A q \in 1..(p - 1) : rd[q].pc # "idle"

\* An evaluate that fails open when it does not know the environment.
NotFoundEnvFailOpen(flag_key, environment_key) ==
  [enabled |-> TRUE, flag_key |-> flag_key,
   reason |-> "Environment '" \o environment_key \o "' not found",
   cached |-> FALSE]

NotFoundEnv(flag_key, environment_key) ==
  [enabled |-> FALSE, flag_key |-> flag_key,
   reason |-> "Environment '" \o environment_key \o "' not found",
   cached |-> FALSE]

\* An evaluate that reports the missing flag as if it came from the cache.
NotFoundFlagCached(flag_key, environment_key) ==
  [enabled |-> FALSE, flag_key |-> flag_key,
   reason |-> "Flag '" \o flag_key \o "' not found in environment '"
              \o environment_key \o "'",
   cached |-> TRUE]

NotFoundFlag(flag_key, environment_key) ==
  [enabled |-> FALSE, flag_key |-> flag_key,
   reason |-> "Flag '" \o flag_key \o "' not found in environment '"
              \o environment_key \o "'",
   cached |-> FALSE]

\* The request record of an evaluate call as it starts.
EvalCall(flag_key, environment_key, user_id) ==
  LET pair == <<environment_key, flag_key>> IN
  [IdleReader EXCEPT
     !.flag_key = flag_key,
     !.environment_key = environment_key,
     !.user_id = user_id,
     !.hLateVer = IF hUpdVer[pair] > 0 /\ hAge[pair] > TtlTicks
                  THEN hUpdVer[pair] ELSE 0,
     !.hNextOf = hInval[pair]]

\* evaluate, step 1, Redis unreachable: client.get raises ConnectionError and
\* nothing in get_flag, in evaluate or in the router catches it.
EvalGetRaises(p, flag_key, environment_key, user_id) ==
  /\ ReaderFree(p)
  /\ rd' = [rd EXCEPT ![p] =
              [EvalCall(flag_key, environment_key, user_id)
                 EXCEPT !.pc = "failed"]]
  /\ hInval' = [hInval EXCEPT ![<<environment_key, flag_key>>] = 0]
  /\ UNCHANGED <<users, audit, envs, flags, cache, wr,
                 hStoreVer, hUpdVer, hAge, hCache, hLastPop>>

\* An evaluate that trusts a cached entry only while the flag's row exists.
EvalGetChecksStore(p, flag_key, environment_key, user_id) ==
  LET pair == <<environment_key, flag_key>>
      key == "flag:" \o environment_key \o ":" \o flag_key
      call == [IdleReader EXCEPT !.flag_key = flag_key,
                                 !.environment_key = environment_key,
                                 !.user_id = user_id]
  IN
  /\ rd[p].pc = "idle" /\ \A q \in 1..(p - 1) : rd[q].pc # "idle"
  /\ hInval' = [hInval EXCEPT ![pair] = 0]
  /\ IF cache[key] # <<>>
        /\ \E f \in flags : \E e \in envs :
             f.key = flag_key /\ e.key = environment_key
             /\ f.environment_id = e.id
     THEN rd' = [rd EXCEPT ![p] =
                   [call EXCEPT !.pc = "done",
                                !.hDataVer = hCache[key][1].ver,
                                !.result =
                                   <<EvaluateFlagData(
                                       JsonLoads(cache[key][1].data),
                                       flag_key, user_id, TRUE)>>]]
     ELSE rd' = [rd EXCEPT ![p] = [call EXCEPT !.pc = "findEnv"]]
  /\ UNCHANGED <<users, audit, envs, flags, cache, wr,
                 hStoreVer, hUpdVer, hAge, hCache, hLastPop>>

\* evaluate, step 1: cache.get_flag.  On a hit the call returns at once from
\* the cached data.
EvalGet(p, flag_key, environment_key, user_id) ==
  LET pair == <<environment_key, flag_key>>
      key == MakeKey(flag_key, environment_key)
      cached_flag == GetFlag(cache, flag_key, environment_key)
      call == EvalCall(flag_key, environment_key, user_id)
  IN
  /\ ReaderFree(p)
  /\ hInval' = [hInval EXCEPT ![pair] = 0]
  /\ IF cached_flag # <<>>
     THEN rd' = [rd EXCEPT ![p] =
                   [call EXCEPT
                      !.pc = "done",
                      !.hDataVer = hCache[key][1].ver,
                      !.result = <<EvaluateFlagData(cached_flag[1], flag_key,
                                                    user_id, TRUE)>>]]
     ELSE rd' = [rd EXCEPT ![p] = [call EXCEPT !.pc = "findEnv"]]
  /\ UNCHANGED <<users, audit, envs, flags, cache, wr,
                 hStoreVer, hUpdVer, hAge, hCache, hLastPop>>

\* An evaluate that creates the environment it does not find.
EvalFindEnvironmentCreates(p) ==
  LET r == rd[p]
      environment == EnvByKey(r.environment_key)
      max == CHOOSE i \in {0} \cup {e.id : e \in envs} \cup {f.id : f \in flags} :
               \A e \in envs : e.id <= i
  IN
  /\ r.pc = "findEnv"
  /\ IF environment = {}
     THEN /\ envs' = envs \cup {[id |-> max + 1, key |-> r.environment_key]}
          /\ rd' = [rd EXCEPT ![p] = [r EXCEPT !.pc = "findFlag",
                                               !.env_id = max + 1]]
     ELSE /\ envs' = envs
          /\ \E e \in environment :
               rd' = [rd EXCEPT ![p] = [r EXCEPT !.pc = "findFlag",
                                                 !.env_id = e.id]]
  /\ UNCHANGED <<users, audit, flags, cache, wr,
                 hStoreVer, hUpdVer, hAge, hCache, hInval, hLastPop>>

\* evaluate, step 2: find the environment by key.
EvalFindEnvironment(p) ==
  LET r == rd[p]
      environment == EnvByKey(r.environment_key)
  IN
  /\ r.pc = "findEnv"
  /\ IF environment = {}
     THEN rd' = [rd EXCEPT ![p] =
                   [r EXCEPT !.pc = "done",
                             !.hDataVer =
                                hStoreVer[<<r.environment_key, r.flag_key>>],
                             !.result = <<NotFoundEnv(r.flag_key,
                                                      r.environment_key)>>]]
     ELSE \E e \in environment :
            rd' = [rd EXCEPT ![p] = [r EXCEPT !.pc = "findFlag",
                                              !.env_id = e.id]]
  /\ UNCHANGED <<users, audit, envs, flags, cache, wr,
                 hStoreVer, hUpdVer, hAge, hCache, hInval, hLastPop>>

\* An evaluate that caches a missing flag as a switched-off one.
EvalFindFlagCachesMiss(p) ==
  LET r == rd[p]
      flag == FlagByKey(r.flag_key, r.env_id)
  IN
  /\ r.pc = "findFlag"
  /\ IF flag = {}
     THEN /\ cache' = [cache EXCEPT
                         ![MakeKey(r.flag_key, r.environment_key)] =
                           <<[data |-> <<"is_enabled", "false",
                                         "flag_type", "boolean",
                                         "rollout_percentage", 0>>,
                              ttl |-> TtlTicks]>>]
          /\ rd' = [rd EXCEPT ![p] =
                      [r EXCEPT !.pc = "done", !.env_id = 0,
                                !.result =
                                   <<[enabled |-> FALSE,
                                      flag_key |-> r.flag_key,
                                      reason |-> "Flag '" \o r.flag_key
                                                 \o "' not found in environment '"
                                                 \o r.environment_key \o "'",
                                      cached |-> FALSE]>>]]
     ELSE /\ cache' = cache
          /\ \E f \in flag :
               rd' = [rd EXCEPT ![p] =
                        [r EXCEPT !.pc = "set", !.env_id = 0,
                                  !.flag_data =
                                     <<[is_enabled |-> f.is_enabled,
                                        flag_type |-> f.flag_type,
                                        rollout_percentage |->
                                          f.rollout_percentage]>>,
                                  !.hDataVer =
                                     hStoreVer[<<r.environment_key,
                                                 r.flag_key>>]]]
  /\ UNCHANGED <<users, audit, envs, flags, wr,
                 hStoreVer, hUpdVer, hAge, hCache, hInval, hLastPop>>

\* evaluate, step 3: find the flag in that environment and build flag_data.
EvalFindFlag(p) ==
  LET r == rd[p]
      flag == FlagByKey(r.flag_key, r.env_id)
  IN
  /\ r.pc = "findFlag"
  /\ IF flag = {}
     THEN rd' = [rd EXCEPT ![p] =
                   [r EXCEPT !.pc = "done", !.env_id = 0,
                             !.hDataVer =
                                hStoreVer[<<r.environment_key, r.flag_key>>],
                             !.result = <<NotFoundFlag(r.flag_key,
                                                       r.environment_key)>>]]
     ELSE \E f \in flag :
            rd' = [rd EXCEPT ![p] =
                     [r EXCEPT !.pc = "set", !.env_id = 0,
                               !.flag_data = <<Projection(f)>>,
                               !.hDataVer =
                                  hStoreVer[<<r.environment_key, r.flag_key>>]]]
  /\ UNCHANGED <<users, audit, envs, flags, cache, wr,
                 hStoreVer, hUpdVer, hAge, hCache, hInval, hLastPop>>

\* evaluate, step 4, Redis unreachable: client.setex raises.
EvalSetFlagRaises(p) ==
  /\ rd[p].pc = "set"
  /\ rd' = [rd EXCEPT ![p] = [rd[p] EXCEPT !.pc = "failed",
                                           !.flag_data = <<>>]]
  /\ UNCHANGED <<users, audit, envs, flags, cache, wr,
                 hStoreVer, hUpdVer, hAge, hCache, hInval, hLastPop>>

\* evaluate, step 4: cache.set_flag, then the result from flag_data.
EvalSetFlag(p) ==
  LET r == rd[p]
      pair == <<r.environment_key, r.flag_key>>
      key == MakeKey(r.flag_key, r.environment_key)
      flag_data == r.flag_data[1]
      result == EvaluateFlagData(flag_data, r.flag_key, r.user_id, FALSE)
  IN
  /\ r.pc = "set"
  /\ cache' = CacheSet(cache, key, flag_data)
  /\ hCache' = [hCache EXCEPT ![key] =
                  <<[ver |-> r.hDataVer,
                     matched |-> \E f \in FlagOfPair(pair) :
                                    Projection(f) = flag_data]>>]
  /\ hLastPop' = [hLastPop EXCEPT ![pair] =
                    <<[user_id |-> r.user_id, enabled |-> result.enabled]>>]
  /\ rd' = [rd EXCEPT ![p] = [r EXCEPT !.pc = "done",
                                       !.flag_data = <<>>,
                                       !.result = <<result>>]]
  /\ UNCHANGED <<users, audit, envs, flags, wr,
                 hStoreVer, hUpdVer, hAge, hInval>>


\* _evaluate_flag_data called on its own, on data the caller hands it: the
\* slot keeps the arguments next to the result.
EvaluateFlagDataCall(p, flag_data, flag_key, user_id, cached) ==
  /\ ReaderFree(p)
  /\ rd' = [rd EXCEPT ![p] =
              [IdleReader EXCEPT
                 !.pc = "done",
                 !.flag_key = flag_key,
                 !.user_id = user_id,
                 !.flag_data = <<flag_data>>,
                 !.result = <<EvaluateFlagData(flag_data, flag_key,
                                               user_id, cached)>>]]
  /\ UNCHANGED <<users, audit, envs, flags, cache, wr,
                 hStoreVer, hUpdVer, hAge, hCache, hInval, hLastPop>>

\* --------------------------------------------------------------- update_flag
WriterFree(w) == wr[w].pc = "idle"

\* A request that has ended: its locals are gone, what it did is remembered.
Finished(r, pc) ==
  [IdleWriter EXCEPT !.pc = pc, !.op = r.op, !.flag_key = r.flag_key,
                     !.environment_key = r.environment_key,
                     !.hCommitted = r.hCommitted,
                     !.hInvalidateCalled = r.hInvalidateCalled]

\* The flags row with this primary key, as a set.
FlagById(id) == {f \in flags : f.id = id}

\* The fields of the body whose value differs from the loaded object: the
\* columns the unit of work puts in its UPDATE statement.
ChangedFields(flag, body) ==
  {fld \in body.sent :
     \/ fld \in body.nulls
     \/ fld = "is_enabled" /\ body.is_enabled # flag.is_enabled
     \/ fld = "flag_type" /\ body.flag_type # flag.flag_type
     \/ fld = "rollout_percentage"
        /\ body.rollout_percentage # flag.rollout_percentage}

\* An UPDATE that writes every column of the body, sent or not.
SetFieldsAll(row, body, fields) ==
  [row EXCEPT !.is_enabled = body.is_enabled,
              !.flag_type = body.flag_type,
              !.rollout_percentage = body.rollout_percentage]

\* UPDATE flags SET <fields> WHERE id = row.id, applied to the stored row.
SetFields(row, body, fields) ==
  [row EXCEPT
     !.is_enabled = IF "is_enabled" \in fields THEN body.is_enabled ELSE @,
     !.flag_type = IF "flag_type" \in fields THEN body.flag_type ELSE @,
     !.rollout_percentage = IF "rollout_percentage" \in fields
                            THEN body.rollout_percentage ELSE @]

\* One more committed write to the pair's flag.
Bump(ver, pair) == [ver EXCEPT ![pair] = @ + 1]

\* update_flag: find the environment, then the flag in it (404 when either
\* is absent); the loaded object is also what old_values is read from.
UpdateFind(w, flag_key, environment_key, body) ==
  LET environment == EnvByKey(environment_key)
      call == [IdleWriter EXCEPT !.op = "update", !.flag_key = flag_key,
                                 !.environment_key = environment_key,
                                 !.body = body]
  IN
  /\ WriterFree(w)
  /\ IF environment = {}
        \/ \A e \in environment : FlagByKey(flag_key, e.id) = {}
     THEN wr' = [wr EXCEPT ![w] = Finished(call, "failed")]
     ELSE \E e \in environment : \E f \in FlagByKey(flag_key, e.id) :
            wr' = [wr EXCEPT ![w] = [call EXCEPT !.pc = "u_commit",
                                                 !.flag = <<f>>,
                                                 !.old_values = <<Projection(f)>>]]
  /\ UNCHANGED <<users, audit, envs, flags, cache, rd,
                 hStoreVer, hUpdVer, hAge, hCache, hInval, hLastPop>>

\* nullable=False on flag_type, is_enabled and rollout_percentage.
NotNullViolation(fields, body) == fields \cap body.nulls # {}

\* update_flag: setattr for every field sent, then db.commit().  The flush
\* writes the changed columns to the row with the loaded primary key; when
\* that row is gone the UPDATE matches nothing and the commit raises
\* StaleDataError.  With no changed column no statement is sent.  The three
\* columns are NOT NULL: an UPDATE that sets one of them to NULL is refused
\* with IntegrityError and the commit raises.
UpdateCommit(w) ==
  LET r == wr[w]
      pair == <<r.environment_key, r.flag_key>>
      changed == ChangedFields(r.flag[1], r.body)
      row == FlagById(r.flag[1].id)
  IN
  /\ r.pc = "u_commit"
  /\ IF changed = {}
     THEN /\ wr' = [wr EXCEPT ![w] = [r EXCEPT !.pc = "u_refresh",
                                               !.hCommitted = TRUE]]
          /\ UNCHANGED <<flags, hStoreVer, hUpdVer, hAge, hLastPop>>
     ELSE IF row = {} \/ NotNullViolation(changed, r.body)
     THEN /\ wr' = [wr EXCEPT ![w] = Finished(r, "failed")]
          /\ UNCHANGED <<flags, hStoreVer, hUpdVer, hAge, hLastPop>>
     ELSE /\ flags' = (flags \ row)
                        \cup {SetFields(f, r.body, changed) : f \in row}
          /\ hStoreVer' = Bump(hStoreVer, pair)
          /\ hUpdVer' = [hUpdVer EXCEPT ![pair] = hStoreVer[pair] + 1]
          /\ hAge' = [hAge EXCEPT ![pair] = 0]
          /\ hLastPop' = [hLastPop EXCEPT ![pair] = <<>>]
          /\ wr' = [wr EXCEPT ![w] = [r EXCEPT !.pc = "u_refresh",
                                               !.hCommitted = TRUE,
                                               !.hWrote = changed,
                                               !.hVer = hStoreVer[pair] + 1]]
  /\ UNCHANGED <<users, audit, envs, cache, rd, hCache, hInval>>

\* update_flag: db.refresh(flag) reloads the row by primary key and raises
\* when the row is gone; new_values is read from the reloaded object and
\* audit.log_update writes the row that records the difference.
UpdateRefresh(w) ==
  LET r == wr[w]
      row == FlagById(r.flag[1].id)
  IN
  /\ r.pc = "u_refresh"
  /\ IF row = {}
     THEN /\ wr' = [wr EXCEPT ![w] = Finished(r, "failed")]
          /\ UNCHANGED audit
     ELSE \E f \in row :
            /\ wr' = [wr EXCEPT ![w] = [r EXCEPT !.pc = "u_invalidate",
                                                 !.flag = <<f>>]]
            /\ audit' = CreateLog(audit, f.id, f.key, "updated",
                                  CurrentUser(w),
                                  LogChanges(r.old_values[1], Projection(f)),
                                  r.environment_key)
  /\ UNCHANGED <<users, envs, flags, cache, rd,
                 hStoreVer, hUpdVer, hAge, hCache, hInval, hLastPop>>

\* A handler that undoes its write when the invalidation fails.
StoreRolledBack(w) ==
  LET r == wr[w]
      row == FlagById(r.flag[1].id)
  IN
  IF r.op = "update"
  THEN (flags \ row)
         \cup {[f EXCEPT !.is_enabled = r.old_values[1].is_enabled,
                         !.flag_type = r.old_values[1].flag_type,
                         !.rollout_percentage =
                            r.old_values[1].rollout_percentage] : f \in row}
  ELSE flags \cup {r.flag[1]}

\* What a failed cache.invalidate_flag leaves in the store: the handler has
\* no except clause and the commit is already done, so the store is as it is.
StoreAfterFailedInvalidate(w) == flags

\* update_flag, Redis unreachable at cache.invalidate_flag: client.delete
\* raises and the request ends in an error.
UpdateInvalidateRaises(w) ==
  /\ wr[w].pc = "u_invalidate"
  /\ flags' = StoreAfterFailedInvalidate(w)
  /\ wr' = [wr EXCEPT ![w] = [Finished(wr[w], "failed")
                                EXCEPT !.hInvalidateCalled = TRUE]]
  /\ UNCHANGED <<users, audit, envs, cache, rd,
                 hStoreVer, hUpdVer, hAge, hCache, hInval, hLastPop>>

\* update_flag: cache.invalidate_flag(flag_key, environment_key), the last
\* statement before the return.
UpdateInvalidate(w) ==
  LET r == wr[w]
      pair == <<r.environment_key, r.flag_key>>
      key == MakeKey(r.flag_key, r.environment_key)
  IN
  /\ r.pc = "u_invalidate"
  /\ cache' = CacheDelete(cache, key)
  /\ hCache' = [hCache EXCEPT ![key] = <<>>]
  /\ hLastPop' = [hLastPop EXCEPT ![pair] = <<>>]
  /\ hInval' = IF r.hWrote \cap {"is_enabled", "rollout_percentage"} # {}
                  /\ r.hVer > hInval[pair]
               THEN [hInval EXCEPT ![pair] = r.hVer]
               ELSE hInval
  /\ wr' = [wr EXCEPT ![w] = [Finished(r, "done")
                                EXCEPT !.hInvalidateCalled = TRUE]]
  /\ UNCHANGED <<users, audit, envs, flags, rd, hStoreVer, hUpdVer, hAge>>

\* --------------------------------------------------------------- delete_flag
\* A delete_flag that evicts the cache entry before it deletes the row.
DeleteFindInvalidateFirst(w, flag_key, environment_key) ==
  LET environment == EnvByKey(environment_key)
      call == [IdleWriter EXCEPT !.op = "delete", !.flag_key = flag_key,
                                 !.environment_key = environment_key]
  IN
  /\ WriterFree(w)
  /\ IF environment = {}
        \/ \A e \in environment : FlagByKey(flag_key, e.id) = {}
     THEN wr' = [wr EXCEPT ![w] = Finished(call, "failed")]
     ELSE \E e \in environment : \E f \in FlagByKey(flag_key, e.id) :
            wr' = [wr EXCEPT ![w] = [call EXCEPT !.pc = "d_invalidate",
                                                 !.flag = <<f>>]]
  /\ UNCHANGED <<users, audit, envs, flags, cache, rd,
                 hStoreVer, hUpdVer, hAge, hCache, hInval, hLastPop>>

\* delete_flag: find the environment, then the flag in it (404 when either
\* is absent).
DeleteFind(w, flag_key, environment_key) ==
  LET environment == EnvByKey(environment_key)
      call == [IdleWriter EXCEPT !.op = "delete", !.flag_key = flag_key,
                                 !.environment_key = environment_key]
  IN
  /\ WriterFree(w)
  /\ IF environment = {}
        \/ \A e \in environment : FlagByKey(flag_key, e.id) = {}
     THEN wr' = [wr EXCEPT ![w] = Finished(call, "failed")]
     ELSE \E e \in environment : \E f \in FlagByKey(flag_key, e.id) :
            wr' = [wr EXCEPT ![w] = [call EXCEPT !.pc = "d_commit",
                                                 !.flag = <<f>>]]
  /\ UNCHANGED <<users, audit, envs, flags, cache, rd,
                 hStoreVer, hUpdVer, hAge, hCache, hInval, hLastPop>>

\* delete_flag: db.delete(flag); db.commit().  A DELETE that matches no row
\* (the row was deleted meanwhile) only warns.  audit.log_delete follows.
DeleteCommit(w) ==
  LET r == wr[w]
      pair == <<r.environment_key, r.flag_key>>
      row == FlagById(r.flag[1].id)
  IN
  /\ r.pc = "d_commit"
  /\ flags' = flags \ row
  /\ hStoreVer' = IF row = {} THEN hStoreVer ELSE Bump(hStoreVer, pair)
  /\ hLastPop' = [hLastPop EXCEPT ![pair] = <<>>]
  /\ audit' = CreateLog(audit, r.flag[1].id, r.flag_key, "deleted",
                        CurrentUser(w), <<>>, r.environment_key)
  /\ wr' = [wr EXCEPT ![w] = [r EXCEPT !.pc = "d_invalidate",
                                       !.hCommitted = TRUE,
                                       !.hWrote = {"deleted"}]]
  /\ UNCHANGED <<users, envs, cache, rd,
                 hUpdVer, hAge, hCache, hInval>>

\* delete_flag, Redis unreachable at cache.invalidate_flag.
DeleteInvalidateRaises(w) ==
  /\ wr[w].pc = "d_invalidate"
  /\ flags' = StoreAfterFailedInvalidate(w)
  /\ wr' = [wr EXCEPT ![w] = [Finished(wr[w], "failed")
                                EXCEPT !.hInvalidateCalled = TRUE]]
  /\ UNCHANGED <<users, audit, envs, cache, rd,
                 hStoreVer, hUpdVer, hAge, hCache, hInval, hLastPop>>

\* A delete_flag that returns without touching the cache.
DeleteInvalidateSkipped(w) ==
  /\ wr[w].pc = "d_invalidate"
  /\ wr' = [wr EXCEPT ![w] =
              [IdleWriter EXCEPT !.pc = "done", !.op = wr[w].op,
                                 !.flag_key = wr[w].flag_key,
                                 !.environment_key = wr[w].environment_key,
                                 !.hCommitted = wr[w].hCommitted,
                                 !.hInvalidateCalled = TRUE]]
  /\ UNCHANGED <<users, audit, envs, flags, cache, rd,
                 hStoreVer, hUpdVer, hAge, hCache, hInval, hLastPop>>

\* delete_flag: cache.invalidate_flag(flag_key, environment_key).
DeleteInvalidate(w) ==
  LET r == wr[w]
      pair == <<r.environment_key, r.flag_key>>
      key == MakeKey(r.flag_key, r.environment_key)
  IN
  /\ r.pc = "d_invalidate"
  /\ cache' = CacheDelete(cache, key)
  /\ hCache' = [hCache EXCEPT ![key] = <<>>]
  /\ hLastPop' = [hLastPop EXCEPT ![pair] = <<>>]
  /\ wr' = [wr EXCEPT ![w] = [Finished(r, "done")
                                EXCEPT !.hInvalidateCalled = TRUE]]
  /\ UNCHANGED <<users, audit, envs, flags, rd, hStoreVer, hUpdVer, hAge, hInval>>

\* ------------------------------------------- create_flag and environments
\* Primary keys are uuid4 strings and are only ever compared for equality.
\* A new row gets an id that no row holds and no request in flight still
\* remembers; the least such number stands for it.
IdsInUse ==
  {e.id : e \in envs} \cup {f.id : f \in flags}
    \cup {rd[p].env_id : p \in Readers}
    \cup {wr[w].flag[1].id : w \in {x \in DOMAIN wr : wr[x].flag # <<>>}}
    \cup {wr[w].flag[1].environment_id :
            w \in {x \in DOMAIN wr : wr[x].flag # <<>>}}

FreshId ==
  CHOOSE i \in 1..(Cardinality(IdsInUse) + 1) :
    i \notin IdsInUse /\ \A j \in 1..(i - 1) : j \in IdsInUse

\* create_flag: the environment must exist (400), no flag with the key may
\* exist in it (400), and flags.key is declared unique, so the INSERT of a key
\* another environment already holds fails at commit.  No cache call is made.
\* A request that fails leaves everything as it was.
CreateFlag(environment_id, key, body) ==
  LET environment == {e \in envs : e.id = environment_id}
      existing == FlagByKey(key, environment_id)
      flag == [id |-> FreshId, key |-> key, environment_id |-> environment_id,
               flag_type |-> body.flag_type, is_enabled |-> body.is_enabled,
               rollout_percentage |-> body.rollout_percentage]
  IN
  /\ IF environment = {} \/ existing # {} \/ \E f \in flags : f.key = key
     THEN UNCHANGED <<flags, hStoreVer, hLastPop, audit>>
     ELSE \E e \in environment :
            /\ flags' = flags \cup {flag}
            /\ hStoreVer' = Bump(hStoreVer, <<e.key, key>>)
            /\ hLastPop' = [hLastPop EXCEPT ![<<e.key, key>>] = <<>>]
            /\ audit' = CreateLog(audit, flag.id, key, "created",
                                  CurrentUser("create"), <<>>, e.key)
  /\ UNCHANGED <<users, envs, cache, rd, wr, hUpdVer, hAge, hCache, hInval>>

\* create_environment: 400 when the key exists, else INSERT.
CreateEnvironment(key) ==
  /\ IF EnvByKey(key) # {}
     THEN UNCHANGED envs
     ELSE envs' = envs \cup {[id |-> FreshId, key |-> key]}
  /\ UNCHANGED <<users, audit, flags, cache, rd, wr,
                 hStoreVer, hUpdVer, hAge, hCache, hInval, hLastPop>>

\* What delete_environment does to Redis: nothing.  The handler ends with
\* db.commit(); CacheService.invalidate_environment is never called.
CacheAfterDeleteEnvironment(key) == cache

\* delete_environment: 404 when absent; flags.environment_id is a foreign
\* key without cascade, so the DELETE fails while a flag references the row.
DeleteEnvironment(key) ==
  LET environment == EnvByKey(key) IN
  /\ IF environment = {}
        \/ \E f \in flags : \E e \in environment : f.environment_id = e.id
     THEN UNCHANGED <<envs, cache>>
     ELSE /\ envs' = envs \ environment
          /\ cache' = CacheAfterDeleteEnvironment(key)
  /\ UNCHANGED <<users, audit, flags, rd, wr,
                 hStoreVer, hUpdVer, hAge, hCache, hInval, hLastPop>>

\* ------------------------------------------------------------ environment
\* Redis drops an entry whose time to live has run out.  The requests take
\* arbitrary time, so seen from them an entry may expire between any two steps.
Expire(key) ==
  /\ cache[key] # <<>>
  /\ cache' = [cache EXCEPT ![key] = <<>>]
  /\ hCache' = [hCache EXCEPT ![key] = <<>>]
  /\ hLastPop' = [pr \in Pairs |->
                    IF PairKey(pr) = key THEN <<>> ELSE hLastPop[pr]]
  /\ UNCHANGED <<users, audit, envs, flags, rd, wr,
                 hStoreVer, hUpdVer, hAge, hInval>>

\* A clock under which no entry ever runs out of time.
TickNoExpiry ==
  /\ hAge' = [pr \in Pairs |->
                IF hUpdVer[pr] > 0 /\ hAge[pr] <= TtlTicks
                THEN hAge[pr] + 1 ELSE hAge[pr]]
  /\ UNCHANGED <<users, audit, envs, flags, cache, rd, wr,
                 hStoreVer, hUpdVer, hCache, hInval, hLastPop>>

\* One tick of a clock: Redis counts every time to live down and drops the
\* entries that reach zero.
Expired(c) == {k \in CacheKeys : c[k] # <<>> /\ c[k][1].ttl = 1}

Tick ==
  /\ cache' = [k \in CacheKeys |->
                 IF cache[k] = <<>> \/ k \in Expired(cache) THEN <<>>
                 ELSE <<[cache[k][1] EXCEPT !.ttl = @ - 1]>>]
  /\ hCache' = [k \in CacheKeys |->
                  IF k \in Expired(cache) THEN <<>> ELSE hCache[k]]
  /\ hLastPop' = [pr \in Pairs |->
                    IF PairKey(pr) \in Expired(cache) THEN <<>>
                    ELSE hLastPop[pr]]
  /\ hAge' = [pr \in Pairs |->
                IF hUpdVer[pr] > 0 /\ hAge[pr] <= TtlTicks
                THEN hAge[pr] + 1 ELSE hAge[pr]]
  /\ UNCHANGED <<users, audit, envs, flags, rd, wr, hStoreVer, hUpdVer, hInval>>

\* Ids a create_flag request can name: the environments' and an unknown one.
EnvironmentIds == {e.id : e \in envs} \cup {0}

\* The evaluation endpoint and the flags router.
Next ==
  \/ \E p \in Readers, f \in FlagKeys, e \in EnvKeys, u \in UserIds :
       EvalGet(p, f, e, u)
  \/ \E p \in Readers, f \in FlagKeys, e \in EnvKeys, u \in UserIds :
       EvalGetRaises(p, f, e, u)
  \/ \E p \in Readers : EvalFindEnvironment(p)
  \/ \E p \in Readers : EvalFindFlag(p)
  \/ \E p \in Readers : EvalSetFlag(p)
  \/ \E p \in Readers : EvalSetFlagRaises(p)
  \/ \E w \in Updaters, f \in FlagKeys, e \in EnvKeys, b \in UpdateBodies :
       UpdateFind(w, f, e, b)
  \/ \E w \in Writers : UpdateCommit(w)
  \/ \E w \in Writers : UpdateRefresh(w)
  \/ \E w \in Writers : UpdateInvalidate(w)
  \/ \E w \in Writers : UpdateInvalidateRaises(w)
  \/ \E w \in Deleters, f \in FlagKeys, e \in EnvKeys :
       DeleteFind(w, f, e)
  \/ \E w \in Writers : DeleteCommit(w)
  \/ \E w \in Writers : DeleteInvalidate(w)
  \/ \E w \in Writers : DeleteInvalidateRaises(w)
  \/ \E i \in EnvironmentIds, f \in FlagKeys, b \in CreateBodies :
       CreateFlag(i, f, b)
  \/ \E k \in CacheKeys : Expire(k)

Spec == Init /\ [][Next]_vars

\* The environments router next to the evaluation endpoint, create_flag and
\* delete_flag.
NextEnv ==
  \/ \E p \in Readers, f \in FlagKeys, e \in EnvKeys, u \in UserIds :
       EvalGet(p, f, e, u)
  \/ \E p \in Readers : EvalFindEnvironment(p)
  \/ \E p \in Readers : EvalFindFlag(p)
  \/ \E p \in Readers : EvalSetFlag(p)
  \/ \E w \in Deleters, f \in FlagKeys, e \in EnvKeys :
       DeleteFind(w, f, e)
  \/ \E w \in Writers : DeleteCommit(w)
  \/ \E w \in Writers : DeleteInvalidate(w)
  \/ \E i \in EnvironmentIds, f \in FlagKeys, b \in CreateBodies :
       CreateFlag(i, f, b)
  \/ \E e \in EnvKeys : CreateEnvironment(e)
  \/ \E e \in EnvKeys : DeleteEnvironment(e)
  \/ \E k \in CacheKeys : Expire(k)

SpecEnv == Init /\ [][NextEnv]_vars

\* The evaluation endpoint and update_flag under a clock that ticks.
NextTimed ==
  \/ \E p \in Readers, f \in FlagKeys, e \in EnvKeys, u \in UserIds :
       EvalGet(p, f, e, u)
  \/ \E p \in Readers : EvalFindEnvironment(p)
  \/ \E p \in Readers : EvalFindFlag(p)
  \/ \E p \in Readers : EvalSetFlag(p)
  \/ \E w \in Updaters, f \in FlagKeys, e \in EnvKeys, b \in UpdateBodies :
       UpdateFind(w, f, e, b)
  \/ \E w \in Writers : UpdateCommit(w)
  \/ \E w \in Writers : UpdateRefresh(w)
  \/ \E w \in Writers : UpdateInvalidate(w)
  \/ \E i \in EnvironmentIds, f \in FlagKeys, b \in CreateBodies :
       CreateFlag(i, f, b)
  \/ Tick

SpecTimed == Init /\ [][NextTimed]_vars

\* The endpoint has sent its response: the slot is free for the next request.
EvalReturn(p) ==
  /\ rd[p].pc = "done"
  /\ rd' = [rd EXCEPT ![p] = IdleReader]
  /\ UNCHANGED <<users, audit, envs, flags, cache, wr,
                 hStoreVer, hUpdVer, hAge, hCache, hInval, hLastPop>>

\* The same with evaluate calls that keep coming for ever.  Redis counts the
\* time to live down on its own whatever the requests do, so the clock is
\* weakly fair.
NextHeal ==
  \/ NextTimed
  \/ \E p \in Readers : EvalReturn(p)

SpecHeal == Init /\ [][NextHeal]_vars /\ WF_vars(Tick)

\* The evaluation endpoint alone over a store that no request changes: three
\* evaluate calls, a wider choice of users, and any one flag configuration
\* that create_flag accepts (or no flag at all).
FixedReaders == 1..3
FixedUserIds == {None, "", "alice", "bob"}
FixedPercentages == {0, 60, 100}

FixedFlags ==
  {[id |-> 2, key |-> "new-checkout", environment_id |-> 1,
    flag_type |-> t, is_enabled |-> b, rollout_percentage |-> r] :
     t \in FlagTypes, b \in BOOLEAN, r \in FixedPercentages}

InitFixed ==
  /\ envs = {[id |-> 1, key |-> "production"]}
  /\ flags \in {{}} \cup {{f} : f \in FixedFlags}
  /\ cache = [k \in CacheKeys |-> <<>>]
  /\ rd = [p \in FixedReaders |-> IdleReader]
  /\ wr = [w \in Writers |-> IdleWriter]
  /\ hStoreVer = [pr \in Pairs |-> IF FlagOfPair(pr) = {} THEN 0 ELSE 1]
  /\ hUpdVer = [pr \in Pairs |-> 0]
  /\ hAge = [pr \in Pairs |-> 0]
  /\ hCache = [k \in CacheKeys |-> <<>>]
  /\ hInval = [pr \in Pairs |-> 0]
  /\ hLastPop = [pr \in Pairs |-> <<>>]
  /\ users = SeedUsers
  /\ audit = EmptyBag

NextFixed ==
  \/ \E p \in FixedReaders, f \in FlagKeys, e \in EnvKeys, u \in FixedUserIds :
       EvalGet(p, f, e, u)
  \/ \E p \in FixedReaders : EvalFindEnvironment(p)
  \/ \E p \in FixedReaders : EvalFindFlag(p)
  \/ \E p \in FixedReaders : EvalSetFlag(p)
  \/ \E k \in CacheKeys : Expire(k)

SpecFixed == InitFixed /\ [][NextFixed]_vars

\* ------------------------------------------------- one request at a time
\* No request is in flight.
Quiescent ==
  /\ \A p \in Readers : rd[p].pc \in {"idle", "done", "failed"}
  /\ \A w \in DOMAIN wr : wr[w].pc \in {"idle", "done", "failed"}

\* The evaluation endpoint and the flags router when a request only starts
\* after the one before it has ended; Redis may still be unreachable when a
\* handler invalidates, and entries still expire.
NextSeq ==
  \/ \E p \in Readers, f \in FlagKeys, e \in EnvKeys, u \in UserIds :
       Quiescent /\ EvalGet(p, f, e, u)
  \/ \E p \in Readers : EvalFindEnvironment(p)
  \/ \E p \in Readers : EvalFindFlag(p)
  \/ \E p \in Readers : EvalSetFlag(p)
  \/ \E w \in Updaters, f \in FlagKeys, e \in EnvKeys, b \in UpdateBodies :
       Quiescent /\ UpdateFind(w, f, e, b)
  \/ \E w \in Updaters : UpdateCommit(w)
  \/ \E w \in Updaters : UpdateRefresh(w)
  \/ \E w \in Updaters : UpdateInvalidate(w)
  \/ \E w \in Updaters : UpdateInvalidateRaises(w)
  \/ \E w \in Deleters, f \in FlagKeys, e \in EnvKeys :
       Quiescent /\ DeleteFind(w, f, e)
  \/ \E w \in Deleters : DeleteCommit(w)
  \/ \E w \in Deleters : DeleteInvalidate(w)
  \/ \E w \in Deleters : DeleteInvalidateRaises(w)
  \/ \E i \in EnvironmentIds, f \in FlagKeys, b \in CreateBodies :
       Quiescent /\ CreateFlag(i, f, b)
  \/ \E k \in CacheKeys : Expire(k)

SpecSeq == Init /\ [][NextSeq]_vars

\* ------------------------------------------------ the administrative API
\* Field(ge=0, le=100) on rollout_percentage, with no check at all.
RolloutUnchecked(r) == TRUE

\* Field(ge=0, le=100) on rollout_percentage in FlagCreate and FlagUpdate.
RolloutInRange(r) == r >= 0 /\ r <= 100

\* Request validation of a FlagCreate body: a body that fails is answered
\* with 422 and the handler does not run.
FlagCreateValid(body) ==
  /\ body.flag_type \in FlagTypes
  /\ body.is_enabled \in BOOLEAN
  /\ RolloutInRange(body.rollout_percentage)

\* Request validation of a FlagUpdate body: every field may be left out or
\* be null; a value that is given must fit the field.
FlagUpdateValid(body) ==
  /\ "flag_type" \in body.sent \ body.nulls => body.flag_type \in FlagTypes
  /\ "is_enabled" \in body.sent \ body.nulls => body.is_enabled \in BOOLEAN
  /\ "rollout_percentage" \in body.sent \ body.nulls
       => RolloutInRange(body.rollout_percentage)

\* Bodies a client may send, the ones validation refuses among them.
AdminCreateBodies ==
  CreateBodies
    \cup {[flag_type |-> "percentage", is_enabled |-> TRUE,
           rollout_percentage |-> r] : r \in {100, 101}}

AdminUpdateBodies ==
  {UpdateBody({"is_enabled"}, TRUE, "boolean", 0),
   UpdateBody({"flag_type"}, FALSE, "percentage", 0)}
    \cup {UpdateBody({"rollout_percentage"}, FALSE, "boolean", r) :
            r \in {-1, 100, 101}}
    \cup {[UpdateBody({fld}, FALSE, "boolean", 0) EXCEPT !.nulls = {fld}] :
            fld \in {"is_enabled", "flag_type", "rollout_percentage"}}

Creators == {"c1", "c2"}

\* An INSERT that no unique index watches.
UniqueKeyViolationNone(key) == FALSE

\* flags.key is declared unique=True: the index refuses a second row with
\* the key, whichever environment it is in.
UniqueKeyViolation(key) == \E f \in flags : f.key = key

\* create_flag as the requests interleave, first half: the environment must
\* exist and hold no flag with the key (400 otherwise); then the Flag object
\* is built from the body.  Its id is drawn when the row is inserted.
CreateFind(w, environment_id, key, body) ==
  LET environment == {e \in envs : e.id = environment_id}
      existing == FlagByKey(key, environment_id)
      call == [IdleWriter EXCEPT !.op = "create", !.flag_key = key]
  IN
  /\ WriterFree(w)
  /\ IF environment = {} \/ existing # {}
     THEN wr' = [wr EXCEPT ![w] = Finished(call, "failed")]
     ELSE \E e \in environment :
            wr' = [wr EXCEPT ![w] =
                     [call EXCEPT
                        !.pc = "c_commit",
                        !.environment_key = e.key,
                        !.flag = <<[id |-> 0, key |-> key,
                                    environment_id |-> environment_id,
                                    flag_type |-> body.flag_type,
                                    is_enabled |-> body.is_enabled,
                                    rollout_percentage |->
                                      body.rollout_percentage]>>]]
  /\ UNCHANGED <<users, audit, envs, flags, cache, rd,
                 hStoreVer, hUpdVer, hAge, hCache, hInval, hLastPop>>

\* create_flag, second half: db.add(flag); db.commit().  The INSERT is refused
\* (IntegrityError) when the key is taken by now or when the environment row
\* is gone by now (foreign key).  No cache call follows.
CreateCommit(w) ==
  LET r == wr[w]
      pair == <<r.environment_key, r.flag_key>>
  IN
  /\ r.pc = "c_commit"
  /\ IF \/ UniqueKeyViolation(r.flag_key)
        \/ \A e \in envs : e.id # r.flag[1].environment_id
     THEN /\ wr' = [wr EXCEPT ![w] = Finished(r, "failed")]
          /\ UNCHANGED <<flags, hStoreVer, hLastPop, audit>>
     ELSE /\ flags' = flags \cup {[r.flag[1] EXCEPT !.id = FreshId]}
          /\ hStoreVer' = Bump(hStoreVer, pair)
          /\ hLastPop' = [hLastPop EXCEPT ![pair] = <<>>]
          /\ audit' = CreateLog(audit, FreshId, r.flag_key, "created",
                                CurrentUser(w), <<>>, r.environment_key)
          /\ wr' = [wr EXCEPT ![w] = [Finished(r, "done")
                                        EXCEPT !.hCommitted = TRUE]]
  /\ UNCHANGED <<users, envs, cache, rd, hUpdVer, hAge, hCache, hInval>>

InitAdmin ==
  /\ envs = {[id |-> 1, key |-> "production"]}
  /\ flags = {}
  /\ cache = [k \in CacheKeys |-> <<>>]
  /\ rd = [p \in Readers |-> IdleReader]
  /\ wr = [w \in Creators \cup Writers |-> IdleWriter]
  /\ hStoreVer = [pr \in Pairs |-> 0]
  /\ hUpdVer = [pr \in Pairs |-> 0]
  /\ hAge = [pr \in Pairs |-> 0]
  /\ hCache = [k \in CacheKeys |-> <<>>]
  /\ hInval = [pr \in Pairs |-> 0]
  /\ hLastPop = [pr \in Pairs |-> <<>>]
  /\ users = SeedUsers
  /\ audit = EmptyBag

\* The flags router and the environments router with requests that race, and
\* one evaluate call that carries what the store holds into the cache.
NextAdmin ==
  \/ \E w \in Creators, i \in EnvironmentIds, f \in FlagKeys,
        b \in AdminCreateBodies :
       FlagCreateValid(b) /\ CreateFind(w, i, f, b)
  \/ \E w \in Creators : CreateCommit(w)
  \/ \E w \in Updaters, f \in FlagKeys, e \in EnvKeys,
        b \in AdminUpdateBodies :
       FlagUpdateValid(b) /\ UpdateFind(w, f, e, b)
  \/ \E w \in Updaters : UpdateCommit(w)
  \/ \E w \in Updaters : UpdateRefresh(w)
  \/ \E w \in Updaters : UpdateInvalidate(w)
  \/ \E w \in Deleters, f \in FlagKeys, e \in EnvKeys :
       DeleteFind(w, f, e)
  \/ \E w \in Deleters : DeleteCommit(w)
  \/ \E w \in Deleters : DeleteInvalidate(w)
  \/ \E e \in EnvKeys : CreateEnvironment(e)
  \/ \E e \in EnvKeys : DeleteEnvironment(e)
  \/ \E f \in FlagKeys, e \in EnvKeys, u \in UserIds : EvalGet(1, f, e, u)
  \/ EvalFindEnvironment(1)
  \/ EvalFindFlag(1)
  \/ EvalSetFlag(1)
  \/ \E k \in CacheKeys : Expire(k)

SpecAdmin == InitAdmin /\ [][NextAdmin]_vars

\* ------------------------------------------- update_flag among other flags
\* Two flags in production, and staging as an environment that was deleted.
UpdateEnvKeys == {"production", "staging"}
UpdateFlagKeys == {"new-checkout", "dark-mode"}
UpdatePairs == UpdateEnvKeys \X UpdateFlagKeys
UpdateCacheKeys == {MakeKey(pr[2], pr[1]) : pr \in UpdatePairs}

InitUpdate ==
  /\ envs = {[id |-> 1, key |-> "production"]}
  /\ flags = {[id |-> 2, key |-> "new-checkout", environment_id |-> 1,
               flag_type |-> "percentage", is_enabled |-> FALSE,
               rollout_percentage |-> 60],
              [id |-> 3, key |-> "dark-mode", environment_id |-> 1,
               flag_type |-> "boolean", is_enabled |-> TRUE,
               rollout_percentage |-> 0]}
  /\ cache = [k \in UpdateCacheKeys |-> <<>>]
  /\ rd = [p \in Readers |-> IdleReader]
  /\ wr = [w \in Writers |-> IdleWriter]
  /\ hStoreVer = [pr \in UpdatePairs |-> IF FlagOfPair(pr) = {} THEN 0 ELSE 1]
  /\ hUpdVer = [pr \in UpdatePairs |-> 0]
  /\ hAge = [pr \in UpdatePairs |-> 0]
  /\ hCache = [k \in UpdateCacheKeys |-> <<>>]
  /\ hInval = [pr \in UpdatePairs |-> 0]
  /\ hLastPop = [pr \in UpdatePairs |-> <<>>]
  /\ users = SeedUsers
  /\ audit = EmptyBag

\* One update_flag, one delete_flag and one evaluate over that store.
NextUpdate ==
  \/ \E w \in Updaters, pr \in UpdatePairs,
        b \in UpdateBodies \cup AdminUpdateBodies :
       FlagUpdateValid(b) /\ UpdateFind(w, pr[2], pr[1], b)
  \/ \E w \in Updaters : UpdateCommit(w)
  \/ \E w \in Updaters : UpdateRefresh(w)
  \/ \E w \in Updaters : UpdateInvalidate(w)
  \/ \E w \in Deleters, pr \in UpdatePairs : DeleteFind(w, pr[2], pr[1])
  \/ \E w \in Deleters : DeleteCommit(w)
  \/ \E w \in Deleters : DeleteInvalidate(w)
  \/ \E pr \in UpdatePairs, u \in UserIds : EvalGet(1, pr[2], pr[1], u)
  \/ EvalFindEnvironment(1)
  \/ EvalFindFlag(1)
  \/ EvalSetFlag(1)

SpecUpdate == InitUpdate /\ [][NextUpdate]_vars

\* ------------------------------------------------- invalidate_environment
\* Redis KEYS pattern matching: * stands for any run of characters, ? for any
\* one character, every other character for itself.
RECURSIVE GlobMatch(_, _)
GlobMatch(pattern, s) ==
  IF pattern = "" THEN s = ""
  ELSE LET h == SubSeq(pattern, 1, 1)
           rest == SubSeq(pattern, 2, Len(pattern))
       IN IF h = "*"
          THEN \/ GlobMatch(rest, s)
               \/ s # "" /\ GlobMatch(pattern, SubSeq(s, 2, Len(s)))
          ELSE /\ s # ""
               /\ h = "?" \/ h = SubSeq(s, 1, 1)
               /\ GlobMatch(rest, SubSeq(s, 2, Len(s)))

\* A pattern without the separator that ends the environment key.
EnvironmentPatternNoSeparator(environment_key) ==
  "flag:" \o environment_key \o "*"

\* pattern = f"flag:{environment_key}:*"
EnvironmentPattern(environment_key) ==
  "flag:" \o environment_key \o ":*"

\* Environment keys the schema accepts, one of them a prefix of the others,
\* and the flag keys cached under them.
NamespaceEnvKeys == {"prod", "production", "prod-eu"}
NamespaceFlagKeys == {"new-checkout", "dark-mode"}
NamespaceKeys ==
  {MakeKey(f, e) : f \in NamespaceFlagKeys, e \in NamespaceEnvKeys}
Invalidators == {"n1"}

IdleInvalidator ==
  [pc |-> "idle", op |-> "invalidate_environment", environment_key |-> "",
   keys |-> {}]

\* Any subset of the keys is cached (set_flag has stored the projection of a
\* flags row under each of them) when invalidate_environment is called.
InitNamespace ==
  /\ envs = {[id |-> 1, key |-> "prod"], [id |-> 2, key |-> "production"],
             [id |-> 3, key |-> "prod-eu"]}
  /\ flags = {}
  /\ cache \in [NamespaceKeys ->
                  {<<>>,
                   <<[data |-> JsonDumps([is_enabled |-> TRUE,
                                          flag_type |-> "boolean",
                                          rollout_percentage |-> 0]),
                      ttl |-> TtlTicks]>>}]
  /\ rd = [p \in Readers |-> IdleReader]
  /\ wr = [w \in Invalidators |-> IdleInvalidator]
  /\ hStoreVer = [pr \in Pairs |-> 0]
  /\ hUpdVer = [pr \in Pairs |-> 0]
  /\ hAge = [pr \in Pairs |-> 0]
  /\ hCache = [k \in NamespaceKeys |-> <<>>]
  /\ hInval = [pr \in Pairs |-> 0]
  /\ hLastPop = [pr \in Pairs |-> <<>>]
  /\ users = SeedUsers
  /\ audit = EmptyBag

\* invalidate_environment: keys = self.client.keys(pattern)
InvalidateEnvironmentKeys(w, environment_key) ==
  /\ wr[w].pc = "idle"
  /\ wr' = [wr EXCEPT ![w] =
              [IdleInvalidator EXCEPT
                 !.pc = "n_delete",
                 !.environment_key = environment_key,
                 !.keys = {k \in DOMAIN cache :
                             /\ cache[k] # <<>>
                             /\ GlobMatch(EnvironmentPattern(environment_key),
                                          k)}]]
  /\ UNCHANGED <<users, audit, envs, flags, cache, rd,
                 hStoreVer, hUpdVer, hAge, hCache, hInval, hLastPop>>

\* invalidate_environment: if keys: self.client.delete(*keys).  DEL skips the
\* keys that have expired since.
InvalidateEnvironmentDelete(w) ==
  LET r == wr[w] IN
  /\ r.pc = "n_delete"
  /\ cache' = [k \in DOMAIN cache |-> IF k \in r.keys THEN <<>> ELSE cache[k]]
  /\ wr' = [wr EXCEPT ![w] = [r EXCEPT !.pc = "done"]]
  /\ UNCHANGED <<users, audit, envs, flags, rd,
                 hStoreVer, hUpdVer, hAge, hCache, hInval, hLastPop>>

\* One invalidate_environment call over a populated cache whose entries may
\* expire at any time.
NextNamespace ==
  \/ \E w \in Invalidators, e \in NamespaceEnvKeys :
       InvalidateEnvironmentKeys(w, e)
  \/ \E w \in Invalidators : InvalidateEnvironmentDelete(w)
  \/ \E k \in NamespaceKeys : Expire(k)

SpecNamespace == InitNamespace /\ [][NextNamespace]_vars

\* ------------------------------------------- the cache service on its own
\* Keys that the schemas accept and that share words across the two parts.
KeyEnvKeys == {"prod", "prod-eu"}
KeyFlagKeys == {"dark-mode", "eu-dark-mode"}
KeyPairs == KeyEnvKeys \X KeyFlagKeys
KeyCacheKeys == {MakeKey(pr[2], pr[1]) : pr \in KeyPairs}
KeyFlagData ==
  {[is_enabled |-> b, flag_type |-> "boolean", rollout_percentage |-> 0] :
     b \in BOOLEAN}
CacheCallers == {"k1"}

IdleCacheCaller ==
  [pc |-> "idle", op |-> "", flag_key |-> "", environment_key |-> "",
   result |-> <<>>]

InitKeys ==
  /\ envs = {[id |-> 1, key |-> "prod"], [id |-> 2, key |-> "prod-eu"]}
  /\ flags = {}
  /\ cache = [k \in KeyCacheKeys |-> <<>>]
  /\ rd = [p \in Readers |-> IdleReader]
  /\ wr = [w \in CacheCallers |-> IdleCacheCaller]
  /\ hStoreVer = [pr \in Pairs |-> 0]
  /\ hUpdVer = [pr \in Pairs |-> 0]
  /\ hAge = [pr \in Pairs |-> 0]
  /\ hCache = [k \in KeyCacheKeys |-> <<>>]
  /\ hInval = [pr \in Pairs |-> 0]
  /\ hLastPop = [pr \in Pairs |-> <<>>]
  /\ users = SeedUsers
  /\ audit = EmptyBag

\* CacheService.set_flag called by one caller after another.
SetFlagCall(w, flag_key, environment_key, flag_data) ==
  /\ cache' = CacheSet(cache, MakeKey(flag_key, environment_key), flag_data)
  /\ wr' = [wr EXCEPT ![w] =
              [IdleCacheCaller EXCEPT !.pc = "done", !.op = "set_flag",
                                      !.flag_key = flag_key,
                                      !.environment_key = environment_key]]
  /\ UNCHANGED <<users, audit, envs, flags, rd,
                 hStoreVer, hUpdVer, hAge, hCache, hInval, hLastPop>>

\* CacheService.invalidate_flag
InvalidateFlagCall(w, flag_key, environment_key) ==
  /\ cache' = CacheDelete(cache, MakeKey(flag_key, environment_key))
  /\ wr' = [wr EXCEPT ![w] =
              [IdleCacheCaller EXCEPT !.pc = "done", !.op = "invalidate_flag",
                                      !.flag_key = flag_key,
                                      !.environment_key = environment_key]]
  /\ UNCHANGED <<users, audit, envs, flags, rd,
                 hStoreVer, hUpdVer, hAge, hCache, hInval, hLastPop>>

\* CacheService.get_flag: the caller keeps what it was given.
GetFlagCall(w, flag_key, environment_key) ==
  /\ wr' = [wr EXCEPT ![w] =
              [IdleCacheCaller EXCEPT
                 !.pc = "done", !.op = "get_flag",
                 !.flag_key = flag_key,
                 !.environment_key = environment_key,
                 !.result = GetFlag(cache, flag_key, environment_key)]]
  /\ UNCHANGED <<users, audit, envs, flags, cache, rd,
                 hStoreVer, hUpdVer, hAge, hCache, hInval, hLastPop>>

NextKeys ==
  \/ \E w \in CacheCallers, pr \in KeyPairs, d \in KeyFlagData :
       SetFlagCall(w, pr[2], pr[1], d)
  \/ \E w \in CacheCallers, pr \in KeyPairs :
       InvalidateFlagCall(w, pr[2], pr[1])
  \/ \E w \in CacheCallers, pr \in KeyPairs :
       GetFlagCall(w, pr[2], pr[1])

SpecKeys == InitKeys /\ [][NextKeys]_vars

\* The decision function alone: one call of _evaluate_flag_data on any
\* projection a flags row can give, for two flag keys, with user ids that are
\* absent, empty, or hash to the buckets 0, 53, 70 and 99 (new-checkout) and
\* 32, 88, 9 and 69 (dark-mode), and rollout percentages on both sides of them.
DecideFlagKeys == {"new-checkout", "dark-mode"}
DecideUserIds == {None, "", "alice", "bob", "user-81", "user-3"}
DecidePercentages == {0, 1, 53, 54, 99, 100}

DecideFlagData ==
  [is_enabled : BOOLEAN, flag_type : FlagTypes,
   rollout_percentage : DecidePercentages]

NextDecide ==
  \E d \in DecideFlagData, f \in DecideFlagKeys,
     u \in DecideUserIds, c \in BOOLEAN :
    EvaluateFlagDataCall(1, d, f, u, c)

SpecDecide == Init /\ [][NextDecide]_vars

\* The same for two calls on enabled percentage flags, so that one user's
\* results at two rollout percentages stand side by side.
RolloutFlagData ==
  {d \in DecideFlagData : d.is_enabled /\ d.flag_type = FlagTypePercentage}

NextRollout ==
  \E p \in Readers, d \in RolloutFlagData, f \in DecideFlagKeys,
     u \in DecideUserIds :
    EvaluateFlagDataCall(p, d, f, u, FALSE)

SpecRollout == Init /\ [][NextRollout]_vars

\* ------------------------------------------- the admin API and its audit log
\* create_flag, update_flag and delete_flag alone, two update_flag requests
\* among them, each request by its own user.
AuditUpdaters == {"u1", "u2"}
AuditWriters == Creators \cup AuditUpdaters \cup Deleters

AuditUpdateBodies ==
  UpdateBodies \cup {UpdateBody({"flag_type"}, FALSE, "percentage", 0)}

InitAudit ==
  /\ envs = {[id |-> 1, key |-> "production"]}
  /\ flags = {}
  /\ cache = [k \in CacheKeys |-> <<>>]
  /\ rd = [p \in Readers |-> IdleReader]
  /\ wr = [w \in AuditWriters |-> IdleWriter]
  /\ hStoreVer = [pr \in Pairs |-> 0]
  /\ hUpdVer = [pr \in Pairs |-> 0]
  /\ hAge = [pr \in Pairs |-> 0]
  /\ hCache = [k \in CacheKeys |-> <<>>]
  /\ hInval = [pr \in Pairs |-> 0]
  /\ hLastPop = [pr \in Pairs |-> <<>>]
  /\ users = SeedUsers
  /\ audit = EmptyBag

NextAudit ==
  \/ \E w \in Creators, i \in EnvironmentIds, f \in FlagKeys,
        b \in CreateBodies :
       CreateFind(w, i, f, b)
  \/ \E w \in Creators : CreateCommit(w)
  \/ \E w \in AuditUpdaters, f \in FlagKeys, e \in EnvKeys,
        b \in AuditUpdateBodies :
       UpdateFind(w, f, e, b)
  \/ \E w \in AuditUpdaters : UpdateCommit(w)
  \/ \E w \in AuditUpdaters : UpdateRefresh(w)
  \/ \E w \in AuditUpdaters : UpdateInvalidate(w)
  \/ \E w \in AuditUpdaters : UpdateInvalidateRaises(w)
  \/ \E w \in Deleters, f \in FlagKeys, e \in EnvKeys :
       DeleteFind(w, f, e)
  \/ \E w \in Deleters : DeleteCommit(w)
  \/ \E w \in Deleters : DeleteInvalidate(w)
  \/ \E w \in Deleters : DeleteInvalidateRaises(w)

SpecAudit == InitAudit /\ [][NextAudit]_vars

\* --------------------------------------------------------- update_user_role
\* Two admins and a viewer; "nobody" is a user id no row has.
UserRoles == {"viewer", "developer", "admin"}
RoleUsers ==
  {[id |-> "alice", role |-> "admin"], [id |-> "bob", role |-> "admin"],
   [id |-> "carol", role |-> "viewer"]}
RoleUserIds == {u.id : u \in RoleUsers}
RoleCallers == {"r1", "r2"}

\* db.query(User).filter(User.id == user_id): the matching rows.
UserById(user_id) == {u \in users : u.id = user_id}

IdleRoleCaller ==
  [pc |-> "idle", op |-> "", current_user |-> <<>>, user_id |-> "",
   new_role |-> "", user |-> <<>>, status |-> 0]

InitRoles ==
  /\ envs = {[id |-> 1, key |-> "production"]}
  /\ flags = {}
  /\ cache = [k \in CacheKeys |-> <<>>]
  /\ rd = [p \in Readers |-> IdleReader]
  /\ wr = [w \in RoleCallers |-> IdleRoleCaller]
  /\ hStoreVer = [pr \in Pairs |-> 0]
  /\ hUpdVer = [pr \in Pairs |-> 0]
  /\ hAge = [pr \in Pairs |-> 0]
  /\ hCache = [k \in CacheKeys |-> <<>>]
  /\ hInval = [pr \in Pairs |-> 0]
  /\ hLastPop = [pr \in Pairs |-> <<>>]
  /\ users = RoleUsers
  /\ audit = EmptyBag

\* A request that has ended with this status code.
RoleFinished(r, pc, status) ==
  [IdleRoleCaller EXCEPT !.pc = pc, !.op = r.op, !.user_id = r.user_id,
                         !.new_role = r.new_role,
                         !.current_user = r.current_user,
                         !.status = status]

\* require_role: the role the user has now must be one of the allowed ones.
RoleAllowed(user, allowed_roles) == user.role \in allowed_roles

\* update_user_role: the request names its sender and takes away the admin
\* role.
SelfDemotion(user, current_user, new_role) ==
  user.id = current_user.id /\ new_role # "admin"

\* update_user_role, its dependency require_admin: get_current_user loads the
\* row of the token's user, and the request goes on only if that row says
\* admin now (403 otherwise).
RoleAuthorize(w, token_user_id, user_id, new_role) ==
  LET call == [IdleRoleCaller EXCEPT !.op = "update_user_role",
                                     !.user_id = user_id,
                                     !.new_role = new_role]
  IN
  /\ wr[w].pc = "idle"
  /\ \E current_user \in UserById(token_user_id) :
       wr' = [wr EXCEPT ![w] =
                IF RoleAllowed(current_user, {"admin"})
                THEN [call EXCEPT !.pc = "r_find",
                                  !.current_user = <<current_user>>]
                ELSE RoleFinished(call, "failed", 403)]
  /\ UNCHANGED <<users, audit, envs, flags, cache, rd,
                 hStoreVer, hUpdVer, hAge, hCache, hInval, hLastPop>>

\* update_user_role: the query for the target user (404 when there is none)
\* and the check against removing one's own admin role (400).  The session
\* already holds the sender's row, so a query for the sender returns that
\* object as it was loaded.
RoleFind(w) ==
  LET r == wr[w]
      current_user == r.current_user[1]
      found == IF r.user_id = current_user.id THEN {current_user}
               ELSE UserById(r.user_id)
  IN
  /\ r.pc = "r_find"
  /\ IF found = {}
     THEN wr' = [wr EXCEPT ![w] = RoleFinished(r, "failed", 404)]
     ELSE \E user \in found :
            wr' = [wr EXCEPT ![w] =
                     IF SelfDemotion(user, current_user, r.new_role)
                     THEN RoleFinished(r, "failed", 400)
                     ELSE [r EXCEPT !.pc = "r_commit", !.user = <<user>>]]
  /\ UNCHANGED <<users, audit, envs, flags, cache, rd,
                 hStoreVer, hUpdVer, hAge, hCache, hInval, hLastPop>>

\* update_user_role: user.role = new_role; db.commit(); db.refresh(user).  The
\* flush sends UPDATE users SET role WHERE id only when the role differs from
\* the loaded one.
RoleCommit(w) ==
  LET r == wr[w]
      user == r.user[1]
  IN
  /\ r.pc = "r_commit"
  /\ users' = IF user.role = r.new_role THEN users
              ELSE {IF u.id = user.id THEN [u EXCEPT !.role = r.new_role]
                    ELSE u : u \in users}
  /\ wr' = [wr EXCEPT ![w] = RoleFinished(r, "done", 200)]
  /\ UNCHANGED <<audit, envs, flags, cache, rd,
                 hStoreVer, hUpdVer, hAge, hCache, hInval, hLastPop>>

NextRoles ==
  \/ \E w \in RoleCallers, t \in RoleUserIds,
        i \in RoleUserIds \cup {"nobody"}, n \in UserRoles :
       RoleAuthorize(w, t, i, n)
  \/ \E w \in RoleCallers : RoleFind(w)
  \/ \E w \in RoleCallers : RoleCommit(w)

SpecRoles == InitRoles /\ [][NextRoles]_vars

\* ------------------------------------------------------------------ claims
\* A finished evaluate call that returned a result.
Returned(p) == rd[p].pc = "done" /\ rd[p].result # <<>>

\* C1: after an update_flag that changed is_enabled or rollout_percentage has
\* committed and invalidated, the next evaluate call of that pair returns
\* cached=false and a result from the new configuration, in every
\* interleaving.
NextEvaluateIsFresh ==
  \A p \in Readers :
    Returned(p) /\ rd[p].hNextOf > 0
      => ~rd[p].result[1].cached /\ rd[p].hDataVer >= rd[p].hNextOf

\* C2: every cache entry present equals the projection of the store's flag as
\* it was when set_flag wrote the entry.
CacheEntryMatchesStore ==
  \A k \in CacheKeys : hCache[k] # <<>> => hCache[k][1].matched

\* C3: an evaluate call that starts more than TtlTicks ticks after an update
\* was committed never returns a result computed from the configuration
\* before that update.
NoStaleResultAfterTtl ==
  \A p \in Readers :
    Returned(p) /\ rd[p].hLateVer > 0 => rd[p].hDataVer >= rd[p].hLateVer

\* C4: a cache backend failure during evaluate (on the get or on the set)
\* never makes the evaluate call fail.
EvaluateSurvivesCacheFailure ==
  \A p \in Readers : rd[p].pc # "failed"

\* C5: when delete_environment has removed an environment, no cache entry of
\* that environment's namespace remains.
DeleteEnvironmentEvictsNamespace ==
  [][\A e \in EnvKeys :
       EnvByKey(e) # {} /\ {x \in envs' : x.key = e} = {}
         => \A f \in FlagKeys : cache'[MakeKey(f, e)] = <<>>]_vars

\* C6: in update_flag and delete_flag the cache invalidation is never called
\* before the request's own commit.
InvalidateOnlyAfterCommit ==
  \A w \in Writers : wr[w].hInvalidateCalled => wr[w].hCommitted

\* C6 witness: an update_flag and a delete_flag have both committed and then
\* invalidated.
InvalidateOnlyAfterCommitWitness ==
  \A w \in Writers :
    wr[w].pc = "done" /\ wr[w].hCommitted /\ wr[w].hInvalidateCalled

\* C7: every update_flag or delete_flag whose commit succeeded goes on to call
\* invalidate_flag, whatever happens in between.
CommittedWriteInvalidates ==
  \A w \in Writers :
    wr[w].pc \in {"done", "failed"} /\ wr[w].hCommitted
      => wr[w].hInvalidateCalled

\* What keeping the committed write of request w means across a step: the
\* step leaves the store untouched, the updated row still holds the values
\* written and the deleted row stays deleted.
WriteKept(w) ==
  LET r == wr[w]
      row == {f \in flags' : f.id = r.flag[1].id}
  IN
  /\ flags' = flags
  /\ r.hCommitted
  /\ r.op = "update" =>
       \A f \in row : \A fld \in r.hWrote : f[fld] = r.body[fld]
  /\ r.op = "delete" => row = {}

\* C8: when invalidate_flag fails in update_flag or delete_flag, the write the
\* request has committed is kept (the store is not rolled back).
FailedInvalidateKeepsWrite ==
  [][\A w \in Writers :
       wr[w].pc \in {"u_invalidate", "d_invalidate"} /\ wr'[w].pc = "failed"
         => WriteKept(w)]_vars

\* C8 witness: an update_flag that changed the row has failed at its
\* invalidate_flag call and the row is still there.
FailedInvalidateKeepsWriteWitness ==
  \E w \in Updaters :
    /\ wr[w].pc = "failed" /\ wr[w].hInvalidateCalled
    /\ \E pr \in Pairs : hUpdVer[pr] > 0 /\ FlagOfPair(pr) # {}

\* Reader q starts an evaluate call for pair pr whose cache read is answered,
\* with the arguments of the call that last populated the pair's entry, and
\* nothing has touched the flag or the entry since.
HitFollowsPopulate(q, pr) ==
  /\ rd[q].pc = "idle"
  /\ rd'[q].pc \notin {"idle", "failed"}
  /\ rd'[q].flag_key = pr[2]
  /\ rd'[q].environment_key = pr[1]
  /\ hLastPop[pr] # <<>>
  /\ hLastPop[pr][1].user_id = rd'[q].user_id

\* C9: after an evaluate call has populated the cache on a miss, with no write
\* or expiry in between, the next evaluate call with the same arguments
\* returns cached=true and the same enabled value.
PopulateThenHit ==
  [][\A q \in Readers, pr \in Pairs :
       HitFollowsPopulate(q, pr)
         => /\ rd'[q].pc = "done"
            /\ rd'[q].result # <<>>
            /\ rd'[q].result[1].cached
            /\ rd'[q].result[1].enabled = hLastPop[pr][1].enabled]_vars

\* C9 witness: an evaluate call was answered from an entry that another
\* evaluate call of the same arguments had just written.
PopulateThenHitWitness ==
  \E p, q \in Readers, pr \in Pairs :
    /\ p # q
    /\ Returned(p) /\ ~rd[p].result[1].cached
    /\ Returned(q) /\ rd[q].result[1].cached
    /\ rd[q].user_id = rd[p].user_id
    /\ rd[q].flag_key = pr[2] /\ rd[q].environment_key = pr[1]
    /\ hLastPop[pr] # <<>>
    /\ rd[q].result[1].enabled

\* C10: with the flag unchanged in the store, all evaluate calls with the same
\* (flag_key, environment_key, user_id) return the same enabled value, whether
\* served from the cache or from the store.
EvaluateDeterministic ==
  \A p, q \in FixedReaders :
    /\ Returned(p) /\ Returned(q)
    /\ rd[p].flag_key = rd[q].flag_key
    /\ rd[p].environment_key = rd[q].environment_key
    /\ rd[p].user_id = rd[q].user_id
    => rd[p].result[1].enabled = rd[q].result[1].enabled

\* C10 witness: the same user got enabled=true for a percentage flag once from
\* the store and once from the cache.
EvaluateDeterministicWitness ==
  \E p, q \in FixedReaders :
    /\ Returned(p) /\ Returned(q)
    /\ rd[p].user_id = "alice" /\ rd[q].user_id = "alice"
    /\ ~rd[p].result[1].cached /\ rd[q].result[1].cached
    /\ rd[p].result[1].enabled /\ rd[q].result[1].enabled
    /\ \E f \in flags : f.flag_type = "percentage"

\* The text t occurs in the text s.
Contains(s, t) ==
  \E i \in 1..(Len(s) - Len(t) + 1) : SubSeq(s, i, i + Len(t) - 1) = t

\* C11: on a cache miss, when the store holds no environment with the key,
\* the environment lookup ends the call with a result (no error) that has
\* enabled=false, cached=false and a reason saying the environment was not
\* found.
EnvironmentNotFound ==
  [][\A p \in Readers :
       /\ rd[p].pc = "findEnv" /\ rd'[p].pc # "findEnv"
       /\ EnvByKey(rd[p].environment_key) = {}
       => /\ rd'[p].pc = "done"
          /\ rd'[p].result # <<>>
          /\ ~rd'[p].result[1].enabled
          /\ ~rd'[p].result[1].cached
          /\ Contains(rd'[p].result[1].reason, "Environment")
          /\ Contains(rd'[p].result[1].reason, "not found")]_vars

\* C11 witness: an evaluate call has returned while the store holds no
\* environment at all.
EnvironmentNotFoundWitness ==
  \E p \in Readers :
    /\ envs = {}
    /\ Returned(p)
    /\ rd[p].result[1].reason = "Environment 'production' not found"

\* C12: on a cache miss, when the environment exists and holds no flag with
\* the key, the flag lookup ends the call with a result (no error) that has
\* enabled=false, cached=false and a reason containing "not found".
FlagNotFound ==
  [][\A p \in Readers :
       /\ rd[p].pc = "findFlag" /\ rd'[p].pc # "findFlag"
       /\ FlagByKey(rd[p].flag_key, rd[p].env_id) = {}
       => /\ rd'[p].pc = "done"
          /\ rd'[p].result # <<>>
          /\ ~rd'[p].result[1].enabled
          /\ ~rd'[p].result[1].cached
          /\ Contains(rd'[p].result[1].reason, "not found")]_vars

\* C12 witness: an evaluate call has returned "flag not found" while the
\* environment exists and the store holds no flag.
FlagNotFoundWitness ==
  \E p \in Readers :
    /\ EnvByKey(rd[p].environment_key) # {}
    /\ flags = {}
    /\ Returned(p)
    /\ Contains(rd[p].result[1].reason, "Flag 'new-checkout' not found")

\* C13: every evaluate call that has ended has returned a record with a
\* boolean enabled, the requested flag_key, a non-empty reason and a boolean
\* cached, whatever the store and the cache were.
EvaluateAlwaysAnswers ==
  \A p \in Readers :
    rd[p].pc \in {"done", "failed"}
      => /\ rd[p].result # <<>>
         /\ rd[p].result[1].enabled \in BOOLEAN
         /\ rd[p].result[1].flag_key = rd[p].flag_key
         /\ Len(rd[p].result[1].reason) > 0
         /\ rd[p].result[1].cached \in BOOLEAN

\* Slot p holds a finished call of _evaluate_flag_data with its arguments.
Decided(p) ==
  rd[p].pc = "done" /\ rd[p].flag_data # <<>> /\ rd[p].result # <<>>

\* The call in slot p was made on an enabled percentage flag.
EnabledPercentage(p) ==
  rd[p].flag_data[1].is_enabled
    /\ rd[p].flag_data[1].flag_type = "percentage"

\* C14 as stated: when the projection's is_enabled is false, the result is
\* enabled=false with the reason "flag is disabled", for every flag_type,
\* rollout_percentage and user_id.
DisabledFlagIsOffLowercase ==
  \A p \in Readers :
    Decided(p) /\ ~rd[p].flag_data[1].is_enabled
      => /\ ~rd[p].result[1].enabled
         /\ rd[p].result[1].reason = "flag is disabled"

\* C14: when the projection's is_enabled is false, the result is
\* enabled=false with the reason "Flag is disabled", for every flag_type,
\* rollout_percentage and user_id.
DisabledFlagIsOff ==
  \A p \in Readers :
    Decided(p) /\ ~rd[p].flag_data[1].is_enabled
      => /\ ~rd[p].result[1].enabled
         /\ rd[p].result[1].reason = "Flag is disabled"

\* C14 witness: a disabled percentage flag at 100% was evaluated for a user
\* and came out off.
DisabledFlagIsOffWitness ==
  \E p \in Readers :
    /\ Decided(p)
    /\ ~rd[p].flag_data[1].is_enabled
    /\ rd[p].flag_data[1].flag_type = "percentage"
    /\ rd[p].flag_data[1].rollout_percentage = 100
    /\ rd[p].user_id = "alice"
    /\ ~rd[p].result[1].enabled

\* C15 as stated: an enabled boolean flag gives enabled=true with the reason
\* exactly "boolean flag is enabled", for every user_id and rollout_percentage.
BooleanFlagIsOnLowercase ==
  \A p \in Readers :
    /\ Decided(p)
    /\ rd[p].flag_data[1].is_enabled
    /\ rd[p].flag_data[1].flag_type = "boolean"
    => /\ rd[p].result[1].enabled
       /\ rd[p].result[1].reason = "boolean flag is enabled"

\* C15: an enabled boolean flag gives enabled=true with the reason exactly
\* "Boolean flag is enabled", for every user_id and rollout_percentage.
BooleanFlagIsOn ==
  \A p \in Readers :
    /\ Decided(p)
    /\ rd[p].flag_data[1].is_enabled
    /\ rd[p].flag_data[1].flag_type = "boolean"
    => /\ rd[p].result[1].enabled
       /\ rd[p].result[1].reason = "Boolean flag is enabled"

\* C15 witness: the enabled boolean flag dark-mode with rollout 0 was
\* evaluated without a user_id and came out on.
BooleanFlagIsOnWitness ==
  \E p \in Readers :
    /\ Decided(p)
    /\ rd[p].flag_key = "dark-mode"
    /\ rd[p].flag_data[1].is_enabled
    /\ rd[p].flag_data[1].flag_type = "boolean"
    /\ rd[p].flag_data[1].rollout_percentage = 0
    /\ rd[p].user_id = None
    /\ rd[p].result[1].enabled

\* C16: an enabled percentage flag evaluated with no user_id gives
\* enabled=false with a reason containing "requires user_id", whatever the
\* rollout_percentage.
PercentageNeedsUserId ==
  \A p \in Readers :
    Decided(p) /\ EnabledPercentage(p) /\ rd[p].user_id = None
      => /\ ~rd[p].result[1].enabled
         /\ Contains(rd[p].result[1].reason, "requires user_id")

\* C16 witness: an enabled percentage flag at 100% was evaluated with no
\* user_id and came out off.
PercentageNeedsUserIdWitness ==
  \E p \in Readers :
    /\ Decided(p) /\ EnabledPercentage(p)
    /\ rd[p].flag_data[1].rollout_percentage = 100
    /\ rd[p].user_id = None
    /\ ~rd[p].result[1].enabled

\* The result in slot p is on exactly when the user's bucket is strictly below
\* the rollout percentage, and its reason names the bucket and the percentage.
DecidedByBucket(p) ==
  LET bucket == GetBucket(rd[p].flag_key, rd[p].user_id)
      rollout == rd[p].flag_data[1].rollout_percentage
  IN /\ rd[p].result[1].enabled <=> bucket < rollout
     /\ Contains(rd[p].result[1].reason, "bucket " \o ToString(bucket) \o " ")
     /\ Contains(rd[p].result[1].reason, " " \o ToString(rollout) \o "%")

\* C17 as stated: for an enabled percentage flag and a user_id that is
\* present, the result is on iff bucket(flag_key, user_id) < rollout_percentage
\* and the reason names both numbers.
PresentUserDecidedByBucket ==
  \A p \in Readers :
    Decided(p) /\ EnabledPercentage(p) /\ rd[p].user_id # None
      => DecidedByBucket(p)

\* C17: for an enabled percentage flag and a user_id that is present and not
\* the empty string, the result is on iff bucket(flag_key, user_id) <
\* rollout_percentage and the reason names both numbers.
NonEmptyUserDecidedByBucket ==
  \A p \in Readers :
    Decided(p) /\ EnabledPercentage(p) /\ rd[p].user_id \notin {None, ""}
      => DecidedByBucket(p)

\* C17 witness: alice (bucket 53 for new-checkout) was evaluated at 54% and
\* came out on.
NonEmptyUserDecidedByBucketWitness ==
  \E p \in Readers :
    /\ Decided(p) /\ EnabledPercentage(p)
    /\ rd[p].flag_key = "new-checkout" /\ rd[p].user_id = "alice"
    /\ rd[p].flag_data[1].rollout_percentage = 54
    /\ rd[p].result[1].enabled

\* C18: for one (flag_key, user_id) on an enabled percentage flag, a result
\* that is on at rollout percentage p goes with a result that is on at every
\* larger percentage.
MonotonicRollout ==
  \A p, q \in Readers :
    /\ Decided(p) /\ EnabledPercentage(p)
    /\ Decided(q) /\ EnabledPercentage(q)
    /\ rd[p].flag_key = rd[q].flag_key
    /\ rd[p].user_id = rd[q].user_id
    /\ rd[p].flag_data[1].rollout_percentage
         < rd[q].flag_data[1].rollout_percentage
    /\ rd[p].result[1].enabled
    => rd[q].result[1].enabled

\* C18 witness: alice was on for new-checkout at 54% and at 100%.
MonotonicRolloutWitness ==
  \E p, q \in Readers :
    /\ Decided(p) /\ Decided(q)
    /\ rd[p].flag_key = "new-checkout" /\ rd[q].flag_key = "new-checkout"
    /\ rd[p].user_id = "alice" /\ rd[q].user_id = "alice"
    /\ rd[p].flag_data[1].rollout_percentage = 54
    /\ rd[q].flag_data[1].rollout_percentage = 100
    /\ rd[p].result[1].enabled /\ rd[q].result[1].enabled

\* At 0% the result in slot p is off and at 100% it is on.
DecidedAtBoundary(p) ==
  /\ rd[p].flag_data[1].rollout_percentage = 0 => ~rd[p].result[1].enabled
  /\ rd[p].flag_data[1].rollout_percentage = 100 => rd[p].result[1].enabled

\* C19 as stated: for an enabled percentage flag, rollout 0 turns the flag off
\* and rollout 100 turns it on for every user id.
BoundaryForEveryUserId ==
  \A p \in Readers :
    Decided(p) /\ EnabledPercentage(p) /\ rd[p].user_id # None
      => DecidedAtBoundary(p)

\* C19: for an enabled percentage flag, rollout 0 turns the flag off and
\* rollout 100 turns it on for every user id that is not the empty string.
BoundaryForNonEmptyUserId ==
  \A p \in Readers :
    Decided(p) /\ EnabledPercentage(p) /\ rd[p].user_id \notin {None, ""}
      => DecidedAtBoundary(p)

\* C19 witness: the user in bucket 99 was on at 100%.
BoundaryForNonEmptyUserIdWitness ==
  \E p \in Readers :
    /\ Decided(p) /\ EnabledPercentage(p)
    /\ rd[p].flag_key = "new-checkout" /\ rd[p].user_id = "user-3"
    /\ rd[p].flag_data[1].rollout_percentage = 100
    /\ rd[p].result[1].enabled

\* C20: the bucket of every flag_key and every user_id string is between 0
\* and 99.
BucketInRange ==
  \A p \in Readers :
    Decided(p) /\ rd[p].user_id # None
      => GetBucket(rd[p].flag_key, rd[p].user_id) \in 0..99

\* C20 witness: a call was made for the user whose digest prefix 69be58fb
\* gives the largest bucket, 99.
BucketInRangeWitness ==
  \E p \in Readers :
    /\ Decided(p)
    /\ rd[p].flag_key = "new-checkout" /\ rd[p].user_id = "user-3"
    /\ GetBucket(rd[p].flag_key, rd[p].user_id) = 99

\* int(hashlib.md5((flag_key + ":" + user_id).encode("utf-8")).hexdigest()[:8],
\* 16) % 100 as CPython computes it, for reference.
ReferenceBucket(flag_key, user_id) ==
  CASE flag_key = "new-checkout" /\ user_id = "" -> 31
    [] flag_key = "new-checkout" /\ user_id = "alice" -> 53
    [] flag_key = "new-checkout" /\ user_id = "bob" -> 70
    [] flag_key = "new-checkout" /\ user_id = "user-81" -> 0
    [] flag_key = "new-checkout" /\ user_id = "user-3" -> 99
    [] flag_key = "dark-mode" /\ user_id = "" -> 38
    [] flag_key = "dark-mode" /\ user_id = "alice" -> 88
    [] flag_key = "dark-mode" /\ user_id = "bob" -> 9
    [] flag_key = "dark-mode" /\ user_id = "user-81" -> 32
    [] flag_key = "dark-mode" /\ user_id = "user-3" -> 69

\* C21: the bucket of (flag_key, user_id) is the first eight hex digits of the
\* MD5 digest of flag_key + ":" + user_id read as an unsigned 32-bit integer,
\* modulo 100, and it depends on nothing else: whatever the cache holds and
\* whichever calls came before, a result that names a bucket names that one.
BucketIsMd5Mod100 ==
  /\ \A f \in DecideFlagKeys, u \in DecideUserIds \ {None} :
       GetBucket(f, u) = ReferenceBucket(f, u)
  /\ \A p \in FixedReaders :
       Returned(p) /\ Contains(rd[p].result[1].reason, "User bucket")
       => Contains(rd[p].result[1].reason,
                   "User bucket "
                     \o ToString(ReferenceBucket(rd[p].flag_key, rd[p].user_id))
                     \o " is")

\* C21 witness: alice's bucket 53 was computed once on the store path and once
\* on the cache path, and bob's bucket 70 by a third call.
BucketIsMd5Mod100Witness ==
  \E p, q, r \in FixedReaders :
    /\ Returned(p) /\ Returned(q) /\ Returned(r)
    /\ rd[p].user_id = "alice" /\ ~rd[p].result[1].cached
    /\ rd[q].user_id = "alice" /\ rd[q].result[1].cached
    /\ Contains(rd[p].result[1].reason, "User bucket 53 is")
    /\ Contains(rd[q].result[1].reason, "User bucket 53 is")
    /\ Contains(rd[r].result[1].reason, "User bucket 70 is")

\* The enabled value of an evaluate call that runs alone against the store.
SequentialEnabled(p) ==
  LET flag == FlagOfPair(<<rd[p].environment_key, rd[p].flag_key>>) IN
  /\ flag # {}
  /\ \A f \in flag :
       EvaluateFlagData(Projection(f), rd[p].flag_key,
                        rd[p].user_id, FALSE).enabled

\* C22: evaluate calls run concurrently on one flag with no lock; while the
\* store's flag is unchanged every interleaving of their get, store-read and
\* set steps gives each call the enabled value of a sequential run and leaves
\* the cache entry absent or equal to the store's projection.
ConcurrentEvaluateAsSequential ==
  /\ \A p \in FixedReaders :
       Returned(p) => (rd[p].result[1].enabled <=> SequentialEnabled(p))
  /\ \A pr \in Pairs :
       \/ cache[PairKey(pr)] = <<>>
       \/ \E f \in FlagOfPair(pr) :
            JsonLoads(cache[PairKey(pr)][1].data) = Projection(f)

\* C22 witness: one call has populated the entry for an enabled percentage
\* flag while two more calls, which both missed, are in flight at once, one
\* about to overwrite the entry and one still reading the store.
ConcurrentEvaluateAsSequentialWitness ==
  /\ Returned(1) /\ ~rd[1].result[1].cached /\ rd[1].result[1].enabled
  /\ rd[2].pc = "set" /\ rd[3].pc = "findFlag"
  /\ cache[MakeKey("new-checkout", "production")] # <<>>
  /\ \E f \in flags : f.flag_type = "percentage" /\ f.rollout_percentage = 60

\* The cache holds an entry for the pair that differs from what the store
\* holds for it now.
StaleEntry(pr) ==
  /\ cache[PairKey(pr)] # <<>>
  /\ \A f \in FlagOfPair(pr) :
       JsonLoads(cache[PairKey(pr)][1].data) # Projection(f)

\* C23: staleness heals itself.  Once the writes to a flag have stopped and
\* with a fair time to live, a stale entry is eventually expired; from some
\* point on no entry is stale any more, so every evaluate from then on is
\* computed from the store's current state, hit or miss.
StalenessHeals == <>[](\A pr \in Pairs : ~StaleEntry(pr))

\* C23 witness: update_flag has finished, and the entry that an evaluate set
\* from the row as it was before is in the cache, one tick from expiry.
StalenessHealsWitness ==
  \E pr \in Pairs :
    /\ StaleEntry(pr)
    /\ cache[PairKey(pr)][1].ttl = 1
    /\ \A w \in Updaters : wr[w].pc = "done" /\ wr[w].hCommitted

\* C24: invalidate_flag is idempotent.  Called on an absent key it is not an
\* error and leaves the cache as it was, and a second call right after the
\* first changes nothing: the cache after one call is the cache after two.
InvalidateFlagIdempotent ==
  [][\A w \in Writers :
       wr[w].pc \in {"u_invalidate", "d_invalidate"} /\ wr'[w].pc = "done"
       => LET key == MakeKey(wr[w].flag_key, wr[w].environment_key) IN
          /\ cache[key] = <<>> => cache' = cache
          /\ CacheDelete(cache', key) = cache'
          /\ CacheDelete(CacheDelete(cache, key), key) = cache']_vars

\* C24 witness: delete_flag has run to its end, invalidation included, and no
\* evaluate has ever started, so the key it invalidated was absent.
InvalidateFlagIdempotentWitness ==
  /\ \E w \in Deleters :
       wr[w].pc = "done" /\ wr[w].hCommitted /\ wr[w].hInvalidateCalled
  /\ \A p \in Readers : rd[p].pc = "idle"
  /\ \A k \in CacheKeys : cache[k] = <<>>

\* C25: invalidate_environment(e) removes every cache entry whose key is
\* flag:e:<flag_key> and leaves every entry of every other environment as it
\* was, environments whose key has e as a prefix included.
InvalidateEnvironmentFrame ==
  [][\A w \in Invalidators :
       wr[w].pc = "n_delete" /\ wr'[w].pc = "done"
       => \A e \in NamespaceEnvKeys, f \in NamespaceFlagKeys :
            IF e = wr[w].environment_key
            THEN cache'[MakeKey(f, e)] = <<>>
            ELSE cache'[MakeKey(f, e)] = cache[MakeKey(f, e)]]_vars

\* C25 witness: invalidate_environment("prod") has removed both entries of
\* prod while entries of production and prod-eu are still cached.
InvalidateEnvironmentFrameWitness ==
  \E w \in Invalidators :
    /\ wr[w].pc = "done" /\ wr[w].environment_key = "prod"
    /\ wr[w].keys = {MakeKey(f, "prod") : f \in NamespaceFlagKeys}
    /\ \A f \in NamespaceFlagKeys : cache[MakeKey(f, "prod")] = <<>>
    /\ cache[MakeKey("new-checkout", "production")] # <<>>
    /\ cache[MakeKey("dark-mode", "prod-eu")] # <<>>

\* C26: after any sequence and any interleaving of create_flag, update_flag
\* and delete_flag calls the store never holds two flags with the same key in
\* the same environment, and every flag belongs to exactly one existing
\* environment.
FlagsUniqueAndOwned ==
  /\ \A f, g \in flags :
       f.key = g.key /\ f.environment_id = g.environment_id => f = g
  /\ \A f \in flags :
       Cardinality({e \in envs : e.id = f.environment_id}) = 1

\* C26 witness: two create_flag calls for the same key in the same
\* environment both passed the existence check; one inserted its row and the
\* other was refused at commit.
FlagsUniqueAndOwnedWitness ==
  /\ wr["c1"].op = "create" /\ wr["c2"].op = "create"
  /\ wr["c1"].flag_key = wr["c2"].flag_key
  /\ wr["c1"].environment_key = "production"
  /\ wr["c2"].environment_key = "production"
  /\ {wr["c1"].pc, wr["c2"].pc} = {"done", "failed"}
  /\ Cardinality(flags) = 1

\* C27: after any sequence of create_flag and update_flag calls, updates
\* that pass an explicit null for a field included, every flag in the store
\* has an integer rollout_percentage in [0,100], a flag_type in {boolean,
\* percentage} and a boolean is_enabled, and so has every cache entry.
StoredValuesInRange ==
  /\ \A f \in flags :
       /\ f.rollout_percentage \in 0..100
       /\ f.flag_type \in {"boolean", "percentage"}
       /\ f.is_enabled \in BOOLEAN
  /\ \A k \in CacheKeys :
       cache[k] # <<>>
       => /\ JsonLoads(cache[k][1].data).rollout_percentage \in 0..100
          /\ JsonLoads(cache[k][1].data).flag_type \in {"boolean", "percentage"}
          /\ cache[k][1].data[2] \in {"true", "false"}

\* C27 witness: an update_flag that carries an explicit null has set it on
\* the loaded object and stands at its commit, while the flag, at rollout 100,
\* is in the store and in the cache.
StoredValuesInRangeWitness ==
  /\ \E w \in Updaters :
       wr[w].pc = "u_commit" /\ wr[w].body.nulls = {"rollout_percentage"}
  /\ \E f \in flags : f.rollout_percentage = 100
  /\ \E k \in CacheKeys :
       cache[k] # <<>> /\ JsonLoads(cache[k][1].data).rollout_percentage = 100

\* C28: evaluate never changes the authoritative store: whatever the input
\* and whatever the outcome (hit, miss, not found), every step of an evaluate
\* call leaves the environments and the flags, with all their fields, as they
\* were.
EvaluateLeavesStore ==
  [][rd' # rd => envs' = envs /\ flags' = flags]_vars

\* C28 witness: over a store that holds a flag, one evaluate has ended in
\* "not found" and another has read the flag from the store and cached it.
EvaluateLeavesStoreWitness ==
  \E p, q \in Readers :
    /\ Returned(p) /\ Contains(rd[p].result[1].reason, "not found")
    /\ Returned(q) /\ ~rd[q].result[1].cached
    /\ ~Contains(rd[q].result[1].reason, "not found")
    /\ flags # {}
    /\ \E k \in CacheKeys : cache[k] # <<>>

\* C29: an evaluate call that ends in "environment not found" or "flag not
\* found" leaves the cache unchanged: negative results are never cached, and
\* set_flag is only ever called with the projection of a flag that was read
\* from the store.
NotFoundLeavesCache ==
  [][\A p \in Readers :
       /\ rd[p].pc \in {"findEnv", "findFlag"} /\ rd'[p].pc = "done"
            => cache' = cache
       /\ rd[p].pc = "findFlag" /\ rd'[p].pc = "set"
            => \E f \in flags : rd'[p].flag_data = <<Projection(f)>>
       /\ rd' # rd /\ cache' # cache
            => \E q \in Readers :
                 /\ rd[q].pc = "set" /\ rd[q].flag_data # <<>>
                 /\ cache' = CacheSet(cache,
                                      MakeKey(rd[q].flag_key,
                                              rd[q].environment_key),
                                      rd[q].flag_data[1])]_vars

\* C29 witness: one evaluate has ended in "environment not found" and another
\* in "flag not found", and the cache is empty.
NotFoundLeavesCacheWitness ==
  \E p, q \in Readers :
    /\ Returned(p) /\ Contains(rd[p].result[1].reason, "Environment '")
    /\ Returned(q) /\ Contains(rd[q].result[1].reason, "Flag '")
    /\ ~rd[p].result[1].cached /\ ~rd[q].result[1].cached
    /\ \A k \in CacheKeys : cache[k] = <<>>

\* No update_flag or delete_flag has ended in a failed cache invalidation.
NoInvalidateFailed ==
  \A w \in Writers : ~(wr[w].pc = "failed" /\ wr[w].hInvalidateCalled)

\* Between two requests the cache holds no entry for a pair whose flag is
\* absent from the store.
NoEntryForAbsentFlag ==
  Quiescent
  => \A pr \in Pairs : cache[PairKey(pr)] # <<>> => FlagOfPair(pr) # {}

\* An evaluate call that ends in this step while the store holds the flag
\* answers from that flag.
EndingEvaluateSeesFlag ==
  \A p \in Readers :
    /\ rd[p].pc \notin {"idle", "done", "failed"} /\ rd'[p].pc = "done"
    /\ FlagOfPair(<<rd[p].environment_key, rd[p].flag_key>>) # {}
    => \E f \in FlagOfPair(<<rd[p].environment_key, rd[p].flag_key>>) :
         rd'[p].result[1].enabled
           = EvaluateFlagData(Projection(f), rd[p].flag_key,
                              rd[p].user_id, FALSE).enabled
         /\ ~Contains(rd'[p].result[1].reason, "not found")

HitNeedsNoStore ==
  [][\A p \in Readers :
       rd[p].pc = "idle" /\ rd'[p].pc # "idle"
       /\ cache[MakeKey(rd'[p].flag_key, rd'[p].environment_key)] # <<>>
       => /\ rd'[p].pc = "done"
          /\ rd'[p].result =
               <<EvaluateFlagData(
                   JsonLoads(cache[MakeKey(rd'[p].flag_key,
                                           rd'[p].environment_key)][1].data),
                   rd'[p].flag_key, rd'[p].user_id, TRUE)>>
          /\ envs' = envs /\ flags' = flags /\ cache' = cache]_vars

\* C31 witness: an evaluate was answered from the cache with enabled=true
\* while the store holds neither the flag nor its environment.
HitNeedsNoStoreWitness ==
  \E p \in Readers :
    /\ Returned(p) /\ rd[p].result[1].cached /\ rd[p].result[1].enabled
    /\ envs = {} /\ flags = {}

\* C32: cache operations on one (environment_key, flag_key) pair never read
\* or alter the entry of a different pair: for keys of lowercase letters,
\* digits and hyphens the mapping to flag:{environment_key}:{flag_key} is
\* injective, and set_flag and invalidate_flag leave all other entries
\* unchanged.
CachePairsIndependent ==
  [][/\ \A pr, qr \in KeyPairs :
          MakeKey(pr[2], pr[1]) = MakeKey(qr[2], qr[1]) => pr = qr
     /\ \A w \in CacheCallers :
          LET own == <<wr'[w].environment_key, wr'[w].flag_key>> IN
          /\ \A qr \in KeyPairs \ {own} :
               cache'[MakeKey(qr[2], qr[1])] = cache[MakeKey(qr[2], qr[1])]
          /\ wr'[w].op = "get_flag"
               => /\ cache' = cache
                  /\ wr'[w].result =
                       IF cache[MakeKey(own[2], own[1])] = <<>> THEN <<>>
                       ELSE <<JsonLoads(cache[MakeKey(own[2], own[1])][1].data)>>
    ]_vars

\* C32 witness: with prod/eu-dark-mode cached as enabled and
\* prod-eu/dark-mode cached as disabled, get_flag on prod-eu/dark-mode has
\* returned the disabled entry.
CachePairsIndependentWitness ==
  \E w \in CacheCallers :
    /\ wr[w].op = "get_flag"
    /\ wr[w].environment_key = "prod-eu" /\ wr[w].flag_key = "dark-mode"
    /\ wr[w].result # <<>> /\ ~wr[w].result[1].is_enabled
    /\ cache[MakeKey("eu-dark-mode", "prod")] # <<>>
    /\ JsonLoads(cache[MakeKey("eu-dark-mode", "prod")][1].data).is_enabled

\* C33: for an enabled percentage flag an empty-string user_id is treated
\* exactly like an absent one: enabled=false with the "requires user_id"
\* reason and no bucket computed, at every rollout_percentage.
EmptyUserIdLikeAbsent ==
  \A p \in Readers :
    /\ Returned(p) /\ rd[p].user_id = ""
    /\ rd[p].flag_data[1].is_enabled
    /\ rd[p].flag_data[1].flag_type = "percentage"
    => /\ rd[p].result[1] = EvaluateFlagData(rd[p].flag_data[1], rd[p].flag_key,
                                             None, rd[p].result[1].cached)
       /\ ~rd[p].result[1].enabled
       /\ Contains(rd[p].result[1].reason, "requires user_id")
       /\ ~Contains(rd[p].result[1].reason, "bucket")

\* C33 witness: at rollout 100 the same flag was evaluated once with the
\* empty user_id and once with none, and both calls got the same refusal.
EmptyUserIdLikeAbsentWitness ==
  \E p, q \in Readers :
    /\ Returned(p) /\ Returned(q)
    /\ rd[p].user_id = "" /\ rd[q].user_id = None
    /\ rd[p].flag_key = rd[q].flag_key
    /\ rd[p].flag_data = rd[q].flag_data
    /\ rd[p].flag_data[1].rollout_percentage = 100
    /\ rd[p].result = rd[q].result
    /\ ~rd[p].result[1].enabled

\* What the commit of the update in slot w may change: nothing outside the
\* row it loaded, and in that row only the fields its body carries.
CommitWithinBody(w) ==
  LET id == wr[w].flag[1].id
      body == wr[w].body
  IN
  /\ envs' = envs
  /\ \A f \in flags : f.id # id => f \in flags'
  /\ \A g \in flags' : g.id # id => g \in flags
  /\ \A f \in flags :
       f.id = id
       => \E g \in flags' :
            /\ g.id = id /\ g.key = f.key
            /\ g.environment_id = f.environment_id
            /\ "is_enabled" \notin body.sent => g.is_enabled = f.is_enabled
            /\ "flag_type" \notin body.sent => g.flag_type = f.flag_type
            /\ "rollout_percentage" \notin body.sent
                 => g.rollout_percentage = f.rollout_percentage

AuditActionOf(op) ==
  IF op = "create" THEN "created"
  ELSE IF op = "update" THEN "updated" ELSE "deleted"

AuditEntriesBy(user_id) == {a \in BagToSet(audit) : a.user_id = user_id}

OneEntryPerSuccess ==
  \A w \in DOMAIN wr :
    wr[w].pc = "done" =>
      /\ Cardinality(AuditEntriesBy(CurrentUser(w))) = 1
      /\ \A a \in AuditEntriesBy(CurrentUser(w)) :
           /\ CopiesIn(a, audit) = 1
           /\ a.action = AuditActionOf(wr[w].op)
           /\ a.entity_type = "flag"
           /\ a.entity_key = wr[w].flag_key
           /\ a.environment_key = wr[w].environment_key

UpdateLogsDifference ==
  \A w \in DOMAIN wr :
    wr[w].pc = "u_refresh" /\ wr'[w].pc = "u_invalidate" =>
      \E row \in FlagById(wr[w].flag[1].id) :
        LET old == wr[w].old_values[1]
            new == Projection(row)
            differ == {fld \in DOMAIN new : old[fld] # new[fld]}
        IN \E a \in BagToSet(audit') :
             /\ CopiesIn(a, audit') = CopiesIn(a, audit) + 1
             /\ a.user_id = CurrentUser(w)
             /\ a.action = "updated"
             /\ a.entity_id = row.id
             /\ IF differ = {} THEN a.changes = <<>>
                ELSE /\ a.changes # <<>>
                     /\ DOMAIN a.changes[1] = differ
                     /\ \A fld \in differ :
                          a.changes[1][fld]
                            = [old |-> JsonValue(fld, old[fld]),
                               new |-> JsonValue(fld, new[fld])]

SuccessWritesOneAuditEntry ==
  []OneEntryPerSuccess /\ [][UpdateLogsDifference]_vars

\* Witness of C35: a create, a delete and two updates have returned
\* successfully, one update having changed a field and one having changed
\* none.
SuccessWritesOneAuditEntryWitness ==
  /\ \A w \in {"c1", "d1", "u1", "u2"} : w \in DOMAIN wr /\ wr[w].pc = "done"
  /\ \E a \in AuditEntriesBy(CurrentUser("u1")) : a.changes # <<>>
  /\ \E a \in AuditEntriesBy(CurrentUser("u2")) : a.changes = <<>>

\* C36: starting with at least one admin, after any interleaving of
\* update_user_role requests, each sent by a user who was admin when the
\* request was authorized, at least one user with role admin remains.
AdminRemains == \E u \in users : u.role = "admin"

====
